---------------------------- MODULE Spec2Model ----------------------------
(***************************************************************************)
(* A model of the tree-walking evaluator of the monkey interpreter        *)
(* (package evaluator) together with the object and environment model it  *)
(* runs on.  Eval and its helpers are operators that thread an evaluation *)
(* state (the environment heap, the allocation counter and a trace of     *)
(* what was evaluated); the statement loop of evalProgram is the state    *)
(* machine.                                                                *)
(*                                                                         *)
(* The parser (package parser) is a second state machine, ParserSpec: the  *)
(* loop of ParseProgram and the loops that skip to a semicolon are its     *)
(* steps, the parse functions are operators on the Parser struct.          *)
(***************************************************************************)
EXTENDS Integers, Sequences, FiniteSets, TLC

\* program   the Program AST under evaluation
\* pc        the index of the statement evalProgram's loop is at
\* result    evalProgram's result so far
\* status    running, done or panic
\* st        the evaluation state (environments, allocations, trace)
\* run       which evaluation of the program this is (1 or 2)
\* previous  the results of the evaluations of the program that are over
VARIABLES program, pc, result, status, st, run, previous

\* parser     the Parser struct: lexer, curToken, peekToken, errors
\* parsed     the Statements of the Program that ParseProgram is building
\* ppc        the function the parser is in: ParseProgram, parseLetStatement,
\*            parseReturnStatement; done once ParseProgram has returned
\* pending    the statement that parseLetStatement or parseReturnStatement
\*            has built so far
VARIABLES parser, parsed, ppc, pending

evaluatorVars == <<program, pc, result, status, st, run, previous>>
parserVars == <<parser, parsed, ppc, pending>>
vars == <<program, pc, result, status, st, run, previous,
          parser, parsed, ppc, pending>>

(***************************************************************************)
(* Bounds of the model.                                                    *)
(***************************************************************************)
\* integer literals of the generated programs range over -MaxInt..MaxInt
MaxInt == 2
\* longest generated array literal
MaxElems == 2
\* longest generated statement sequence of a program
MaxStmts == 3
\* deepest chain of nested function calls before the host stack is exhausted
MaxCallDepth == 4
\* longest generated token sequence of the parser's exhaustive inputs
MaxTokens == 3

(***************************************************************************)
(* What is absent.  NIL is the nil interface value, no object at all, and *)
(* NoNode the nil AST node.  (An object is told from another by its type   *)
(* and a node by its kind: these two fields are introduced first, so that  *)
(* they are the first fields two records are compared on.)                 *)
(***************************************************************************)
NIL == [type |-> "nil"]
NoNode == [kind |-> "nil"]

(***************************************************************************)
(* Runtime objects.  Boolean and Null objects exist only as the instances  *)
(* TRUE_, FALSE_ and NULL; an Array, Function and ReturnValue object       *)
(* carries the identity (id) of its allocation, because the evaluator      *)
(* compares such objects by pointer.  An Integer and a String carry none:  *)
(* the only pointer comparison (evalInfixExpression) is reached with an    *)
(* Integer or String operand only when the other operand has another type. *)
(* A String value is the sequence of its byte codes.  The Value field of  *)
(* the host is named by what it holds (value: an integer or an object,    *)
(* bool, str), in objects and in AST nodes alike.                          *)
(***************************************************************************)
INTEGER_OBJ == "INTEGER"
BOOLEAN_OBJ == "BOOLEAN"
NULL_OBJ == "NULL"
RETURN_VALUE_OBJ == "RETURN_VALUE"
ERROR_OBJ == "ERROR"
STRING_OBJ == "STRING"
ARRAY_OBJ == "ARRAY"
FUNCTION_OBJ == "FUNCTION"
BUILTIN_OBJ == "BUILTIN"
HASH_OBJ == "HASH"

NULL == [type |-> NULL_OBJ]
TRUE_ == [type |-> BOOLEAN_OBJ, bool |-> TRUE]
FALSE_ == [type |-> BOOLEAN_OBJ, bool |-> FALSE]

Integer(v) == [type |-> INTEGER_OBJ, value |-> v]
String(s) == [type |-> STRING_OBJ, str |-> s]
Error(msg) == [type |-> ERROR_OBJ, message |-> msg]
ReturnValue(id, v) == [type |-> RETURN_VALUE_OBJ, id |-> id, value |-> v]
Array(id, elems) == [type |-> ARRAY_OBJ, id |-> id, elements |-> elems]
Function(id, params, body, env) ==
    [type |-> FUNCTION_OBJ, id |-> id, parameters |-> params, body |-> body, env |-> env]
Builtin(name) == [type |-> BUILTIN_OBJ, name |-> name]
\* Pairs maps a HashKey to the pair (original key object, value object)
Hash(id, pairs) == [type |-> HASH_OBJ, id |-> id, pairs |-> pairs]
HashPair(key, value) == [key |-> key, value |-> value]

(***************************************************************************)
(* Hash keys.  Integer, Boolean and String are the hashable types; the key *)
(* of an object is its type tag with a number derived from its value: the  *)
(* value of an Integer, 1 or 0 for a Boolean, a hash of the bytes of a     *)
(* String.                                                                 *)
(***************************************************************************)
Hashable(obj) == obj.type \in {INTEGER_OBJ, BOOLEAN_OBJ, STRING_OBJ}

RECURSIVE hashBytes(_, _)
hashBytes(h, bytes) ==
    IF bytes = <<>> THEN h
    ELSE hashBytes((h * 31 + Head(bytes)) % 65521, Tail(bytes))

HashKey(obj) ==
    CASE obj.type = INTEGER_OBJ -> [tag |-> INTEGER_OBJ, hash |-> obj.value]
      [] obj.type = BOOLEAN_OBJ -> [tag |-> BOOLEAN_OBJ, hash |-> IF obj.bool THEN 1 ELSE 0]
      [] obj.type = STRING_OBJ -> [tag |-> STRING_OBJ, hash |-> hashBytes(7, obj.str)]

\* a run-time panic of the host: it ends the evaluation
Panic(why) == [type |-> "PANIC", reason |-> why]
IsPanic(obj) == obj.type = "PANIC"
NilDeref == Panic("invalid memory address or nil pointer dereference")

(***************************************************************************)
(* AST nodes.                                                               *)
(***************************************************************************)
Program(stmts) == [kind |-> "Program", statements |-> stmts]
LetStatement(name, value) == [kind |-> "LetStatement", name |-> name, value |-> value]
ReturnStatement(value) == [kind |-> "ReturnStatement", returnValue |-> value]
ExpressionStatement(e) == [kind |-> "ExpressionStatement", expression |-> e]
BlockStatement(stmts) == [kind |-> "BlockStatement", statements |-> stmts]
IntegerLiteral(v) == [kind |-> "IntegerLiteral", value |-> v]
BooleanLiteral(v) == [kind |-> "Boolean", bool |-> v]
StringLiteral(s) == [kind |-> "StringLiteral", str |-> s]
Identifier(name) == [kind |-> "Identifier", name |-> name]
PrefixExpression(op, right) == [kind |-> "PrefixExpression", operator |-> op, right |-> right]
InfixExpression(op, left, right) ==
    [kind |-> "InfixExpression", operator |-> op, left |-> left, right |-> right]
IfExpression(cond, cons, alt) ==
    [kind |-> "IfExpression", condition |-> cond, consequence |-> cons, alternative |-> alt]
FunctionLiteral(params, body) ==
    [kind |-> "FunctionLiteral", parameters |-> params, body |-> body]
CallExpression(fn, args) == [kind |-> "CallExpression", function |-> fn, arguments |-> args]
ArrayLiteral(elems) == [kind |-> "ArrayLiteral", elements |-> elems]
IndexExpression(left, index) == [kind |-> "IndexExpression", left |-> left, index |-> index]
\* pairs: the (key, value) expression pairs in the order of the source text;
\* the node itself keeps them in a map, which has no order
HashLiteral(pairs) == [kind |-> "HashLiteral", pairs |-> pairs]
Pair(key, value) == <<key, value>>

(***************************************************************************)
(* Environments.  The heap maps an environment's address (1..Len) to its   *)
(* local bindings and the address of its outer environment (0: none).      *)
(***************************************************************************)
EmptyStore == [n \in {} |-> NULL]

NewEnvironment == [store |-> EmptyStore, outer |-> 0]

NewEnclosedEnvironment(outer) == [store |-> EmptyStore, outer |-> outer]

RECURSIVE Get(_, _, _)
Get(heap, env, name) ==
    IF env = 0 THEN [ok |-> FALSE, obj |-> NIL]
    ELSE IF name \in DOMAIN heap[env].store
         THEN [ok |-> TRUE, obj |-> heap[env].store[name]]
         ELSE Get(heap, heap[env].outer, name)

Set(heap, env, name, val) ==
    [heap EXCEPT ![env].store =
        [n \in DOMAIN @ \cup {name} |-> IF n = name THEN val ELSE @[n]]]

\* the addresses of the chain of environments that starts at env
RECURSIVE Chain(_, _)
Chain(heap, env) ==
    IF env = 0 THEN <<>> ELSE <<env>> \o Chain(heap, heap[env].outer)

(***************************************************************************)
(* The evaluation state threaded through Eval.                             *)
(*   heap    the environments                                              *)
(*   next    the next free object identity                                 *)
(*   depth   the number of function calls in progress                      *)
(*   active  the block activations in progress, innermost last             *)
(*   base    the length of active when the function call in progress began *)
(*   trace   what the evaluation did, in order                             *)
(*   orders  the orders in which the coming iterations over the pairs of a *)
(*           hash literal will visit them (the host iterates over a map in *)
(*           an order of its own choosing, anew at every iteration)        *)
(***************************************************************************)
R(obj, s) == [obj |-> obj, st |-> s]
Log(s, e) == [s EXCEPT !.trace = Append(@, e)]


(***************************************************************************)
(* Helpers of the evaluator that read no environment.                      *)
(***************************************************************************)
nativeBoolToBooleanObject(input) == IF input THEN TRUE_ ELSE FALSE_

isError(obj) == IF obj # NIL THEN obj.type = ERROR_OBJ ELSE FALSE

\* mutant: the integer 0 is falsy, as in C
isTruthyZeroFalsy(obj) ==
    IF obj = NULL THEN FALSE
    ELSE IF obj = TRUE_ THEN TRUE
    ELSE IF obj = FALSE_ THEN FALSE
    ELSE IF obj = Integer(0) THEN FALSE
    ELSE TRUE

isTruthy(obj) ==
    IF obj = NULL THEN FALSE
    ELSE IF obj = TRUE_ THEN TRUE
    ELSE IF obj = FALSE_ THEN FALSE
    ELSE TRUE

evalBangOperatorExpression(right) ==
    IF right = TRUE_ THEN FALSE_
    ELSE IF right = FALSE_ THEN TRUE_
    ELSE IF right = NULL THEN TRUE_
    ELSE FALSE_

evalMinusPrefixOperatorExpression(right) ==
    IF right = NIL THEN NilDeref
    ELSE IF right.type # INTEGER_OBJ
         THEN Error("unknown operator: -" \o right.type)
         ELSE Integer(-right.value)

evalPrefixExpression(operator, right) ==
    IF operator = "!" THEN evalBangOperatorExpression(right)
    ELSE IF operator = "-" THEN evalMinusPrefixOperatorExpression(right)
    ELSE IF right = NIL THEN NilDeref
    ELSE Error("unknown operator: " \o operator \o right.type)

\* the quotient of the host's integer division: it truncates toward zero
Abs(x) == IF x < 0 THEN -x ELSE x
Quotient(a, b) ==
    IF (a < 0) = (b < 0) THEN Abs(a) \div Abs(b) ELSE -(Abs(a) \div Abs(b))

unknownOperator(operator, left, right) ==
    Error("unknown operator: " \o left.type \o " " \o operator \o " " \o right.type)

\* mutant: the quotient is rounded down, and dividing by zero yields an Error
evalIntegerInfixExpressionFloored(operator, left, right) ==
    LET leftVal == left.value
        rightVal == right.value
    IN  CASE operator = "+" -> Integer(leftVal + rightVal)
          [] operator = "-" -> Integer(leftVal - rightVal)
          [] operator = "*" -> Integer(leftVal * rightVal)
          [] operator = "/" -> IF rightVal = 0
                               THEN Error("division by zero")
                               ELSE Integer(leftVal \div rightVal)
          [] operator = ">" -> nativeBoolToBooleanObject(leftVal > rightVal)
          [] operator = "<" -> nativeBoolToBooleanObject(leftVal < rightVal)
          [] operator = "==" -> nativeBoolToBooleanObject(leftVal = rightVal)
          [] operator = "!=" -> nativeBoolToBooleanObject(leftVal # rightVal)
          [] OTHER -> unknownOperator(operator, left, right)

evalIntegerInfixExpression(operator, left, right) ==
    LET leftVal == left.value
        rightVal == right.value
    IN  CASE operator = "+" -> Integer(leftVal + rightVal)
          [] operator = "-" -> Integer(leftVal - rightVal)
          [] operator = "*" -> Integer(leftVal * rightVal)
          [] operator = "/" -> IF rightVal = 0
                               THEN Panic("integer divide by zero")
                               ELSE Integer(Quotient(leftVal, rightVal))
          [] operator = ">" -> nativeBoolToBooleanObject(leftVal > rightVal)
          [] operator = "<" -> nativeBoolToBooleanObject(leftVal < rightVal)
          [] operator = "==" -> nativeBoolToBooleanObject(leftVal = rightVal)
          [] operator = "!=" -> nativeBoolToBooleanObject(leftVal # rightVal)
          [] OTHER -> unknownOperator(operator, left, right)

\* the byte-wise order of the host's strings
RECURSIVE StringLess(_, _)
StringLess(a, b) ==
    IF b = <<>> THEN FALSE
    ELSE IF a = <<>> THEN TRUE
    ELSE IF Head(a) # Head(b) THEN Head(a) < Head(b)
    ELSE StringLess(Tail(a), Tail(b))

evalStringInfixExpression(operator, left, right) ==
    LET leftVal == left.str
        rightVal == right.str
    IN  CASE operator = "+" -> String(leftVal \o rightVal)
          [] operator = ">" -> nativeBoolToBooleanObject(StringLess(rightVal, leftVal))
          [] operator = "<" -> nativeBoolToBooleanObject(StringLess(leftVal, rightVal))
          [] operator = "==" -> nativeBoolToBooleanObject(leftVal = rightVal)
          [] operator = "!=" -> nativeBoolToBooleanObject(leftVal # rightVal)
          [] OTHER -> unknownOperator(operator, left, right)

\* mutant: the type mismatch is tested before the == and != cases
evalInfixExpressionMismatchFirst(operator, left, right) ==
    IF left = NIL THEN NilDeref
    ELSE IF left.type = INTEGER_OBJ /\ right = NIL THEN NilDeref
    ELSE IF left.type = INTEGER_OBJ /\ right.type = INTEGER_OBJ
         THEN evalIntegerInfixExpression(operator, left, right)
    ELSE IF left.type = STRING_OBJ /\ right = NIL THEN NilDeref
    ELSE IF left.type = STRING_OBJ /\ right.type = STRING_OBJ
         THEN evalStringInfixExpression(operator, left, right)
    ELSE IF right = NIL THEN NilDeref
    ELSE IF left.type # right.type
         THEN Error("type mismatch: " \o left.type \o " " \o operator \o " " \o right.type)
    ELSE IF operator = "==" THEN nativeBoolToBooleanObject(left = right)
    ELSE IF operator = "!=" THEN nativeBoolToBooleanObject(left # right)
    ELSE unknownOperator(operator, left, right)

\* The switch reads left.Type() and right.Type() in the order of its cases:
\* a nil operand panics where its type is first read.
evalInfixExpression(operator, left, right) ==
    IF left = NIL THEN NilDeref
    ELSE IF left.type = INTEGER_OBJ /\ right = NIL THEN NilDeref
    ELSE IF left.type = INTEGER_OBJ /\ right.type = INTEGER_OBJ
         THEN evalIntegerInfixExpression(operator, left, right)
    ELSE IF left.type = STRING_OBJ /\ right = NIL THEN NilDeref
    ELSE IF left.type = STRING_OBJ /\ right.type = STRING_OBJ
         THEN evalStringInfixExpression(operator, left, right)
    ELSE IF operator = "==" THEN nativeBoolToBooleanObject(left = right)
    ELSE IF operator = "!=" THEN nativeBoolToBooleanObject(left # right)
    ELSE IF right = NIL THEN NilDeref
    ELSE IF left.type # right.type
         THEN Error("type mismatch: " \o left.type \o " " \o operator \o " " \o right.type)
    ELSE unknownOperator(operator, left, right)

unwrapReturnValue(obj) ==
    IF obj # NIL /\ obj.type = RETURN_VALUE_OBJ THEN obj.value ELSE obj

\* mutant: the bounds test of a one-based index
evalArrayIndexExpressionOneBased(array, index) ==
    LET idx == index.value
        maxIdx == Len(array.elements) - 1
    IN  IF idx <= 0 \/ idx > maxIdx THEN NULL ELSE array.elements[idx + 1]

evalArrayIndexExpression(array, index) ==
    LET idx == index.value
        maxIdx == Len(array.elements) - 1
    IN  IF idx < 0 \/ idx > maxIdx THEN NULL ELSE array.elements[idx + 1]

\* mutant: a key that cannot be hashed is looked up like an absent key
evalHashIndexExpressionNoKeyCheck(hash, index) ==
    IF index = NIL THEN NilDeref
    ELSE IF ~Hashable(index) THEN NULL
    ELSE IF HashKey(index) \notin DOMAIN hash.pairs THEN NULL
    ELSE hash.pairs[HashKey(index)].value

\* index.Type() of a nil index, which is not Hashable, is a nil dereference
evalHashIndexExpression(hash, index) ==
    IF index = NIL THEN NilDeref
    ELSE IF ~Hashable(index) THEN Error("unusable as hash key: " \o index.type)
    ELSE IF HashKey(index) \notin DOMAIN hash.pairs THEN NULL
    ELSE hash.pairs[HashKey(index)].value

evalIndexExpression(left, index) ==
    IF left = NIL THEN NilDeref
    ELSE IF left.type = ARRAY_OBJ /\ index = NIL THEN NilDeref
    ELSE IF left.type = ARRAY_OBJ /\ index.type = INTEGER_OBJ
         THEN evalArrayIndexExpression(left, index)
    ELSE IF left.type = HASH_OBJ THEN evalHashIndexExpression(left, index)
    ELSE Error("index operator not supported: " \o left.type)


(***************************************************************************)
(* The builtin table.  A builtin returns R(object, state): rest and push   *)
(* allocate the array they return, print writes its arguments.             *)
(***************************************************************************)
BuiltinNames == {"len", "first", "last", "rest", "push", "print"}

wrongNumberOfArguments(got, want) ==
    Error("wrong number of arguments: got=" \o ToString(got) \o ", want=" \o ToString(want))

\* (a string of the model cannot hold the backquote of the messages: ' stands for it)
mustBeArray(name, obj) ==
    Error("argument to '" \o name \o "' must be ARRAY, got=" \o obj.type)

builtinLen(args, s) ==
    IF Len(args) # 1 THEN R(wrongNumberOfArguments(Len(args), 1), s)
    ELSE IF args[1] = NIL THEN R(NilDeref, s)
    ELSE IF args[1].type = STRING_OBJ THEN R(Integer(Len(args[1].str)), s)
    ELSE IF args[1].type = ARRAY_OBJ THEN R(Integer(Len(args[1].elements)), s)
    ELSE R(Error("argument to 'len' not supported, got=" \o args[1].type), s)

\* mutant: the type of the first argument is tested before the count
builtinFirstTypeFirst(args, s) ==
    IF Len(args) >= 1 /\ args[1] # NIL /\ args[1].type # ARRAY_OBJ
    THEN R(mustBeArray("first", args[1]), s)
    ELSE IF Len(args) # 1 THEN R(wrongNumberOfArguments(Len(args), 1), s)
    ELSE IF args[1] = NIL THEN R(NilDeref, s)
    ELSE IF Len(args[1].elements) > 0 THEN R(args[1].elements[1], s)
    ELSE R(NULL, s)

builtinFirst(args, s) ==
    IF Len(args) # 1 THEN R(wrongNumberOfArguments(Len(args), 1), s)
    ELSE IF args[1] = NIL THEN R(NilDeref, s)
    ELSE IF args[1].type # ARRAY_OBJ THEN R(mustBeArray("first", args[1]), s)
    ELSE IF Len(args[1].elements) > 0 THEN R(args[1].elements[1], s)
    ELSE R(NULL, s)

builtinLast(args, s) ==
    IF Len(args) # 1 THEN R(wrongNumberOfArguments(Len(args), 1), s)
    ELSE IF args[1] = NIL THEN R(NilDeref, s)
    ELSE IF args[1].type # ARRAY_OBJ THEN R(mustBeArray("last", args[1]), s)
    ELSE IF Len(args[1].elements) > 0
         THEN R(args[1].elements[Len(args[1].elements)], s)
    ELSE R(NULL, s)

\* mutant: the rest of an array of one element is NULL
builtinRestOfOne(args, s) ==
    IF Len(args) # 1 THEN R(wrongNumberOfArguments(Len(args), 1), s)
    ELSE IF args[1] = NIL THEN R(NilDeref, s)
    ELSE IF args[1].type # ARRAY_OBJ THEN R(mustBeArray("rest", args[1]), s)
    ELSE IF Len(args[1].elements) > 1
         THEN R(Array(s.next, Tail(args[1].elements)), [s EXCEPT !.next = @ + 1])
    ELSE R(NULL, s)

builtinRest(args, s) ==
    IF Len(args) # 1 THEN R(wrongNumberOfArguments(Len(args), 1), s)
    ELSE IF args[1] = NIL THEN R(NilDeref, s)
    ELSE IF args[1].type # ARRAY_OBJ THEN R(mustBeArray("rest", args[1]), s)
    ELSE IF Len(args[1].elements) > 0
         THEN R(Array(s.next, Tail(args[1].elements)), [s EXCEPT !.next = @ + 1])
    ELSE R(NULL, s)

\* mutant: push appends to the array it is given, in place
builtinPushInPlace(args, s) ==
    IF Len(args) # 2 THEN R(wrongNumberOfArguments(Len(args), 2), s)
    ELSE IF args[1] = NIL THEN R(NilDeref, s)
    ELSE IF args[1].type # ARRAY_OBJ THEN R(mustBeArray("push", args[1]), s)
    ELSE LET grown == Array(args[1].id, Append(args[1].elements, args[2]))
             seen(obj) == IF obj # NIL /\ obj.type = ARRAY_OBJ /\ obj.id = args[1].id
                          THEN grown ELSE obj
             heap2 == [e \in 1..Len(s.heap) |->
                         [store |-> [n \in DOMAIN s.heap[e].store |-> seen(s.heap[e].store[n])],
                          outer |-> s.heap[e].outer]]
         IN  R(grown, [s EXCEPT !.heap = heap2])

builtinPush(args, s) ==
    IF Len(args) # 2 THEN R(wrongNumberOfArguments(Len(args), 2), s)
    ELSE IF args[1] = NIL THEN R(NilDeref, s)
    ELSE IF args[1].type # ARRAY_OBJ THEN R(mustBeArray("push", args[1]), s)
    ELSE R(Array(s.next, Append(args[1].elements, args[2])), [s EXCEPT !.next = @ + 1])

\* Inspect() of a nil argument panics; the arguments before it are written
builtinPrint(args, s) ==
    LET nils == {i \in 1..Len(args) : args[i] = NIL}
        upto == IF nils = {} THEN Len(args)
                ELSE (CHOOSE i \in nils : \A j \in nils : i <= j) - 1
        s1 == Log(s, [ev |-> "print", args |-> SubSeq(args, 1, upto)])
    IN  IF nils = {} THEN R(NULL, s1) ELSE R(NilDeref, s1)

applyBuiltin(name, args, s) ==
    CASE name = "len" -> builtinLen(args, s)
      [] name = "first" -> builtinFirst(args, s)
      [] name = "last" -> builtinLast(args, s)
      [] name = "rest" -> builtinRest(args, s)
      [] name = "push" -> builtinPush(args, s)
      [] name = "print" -> builtinPrint(args, s)

(***************************************************************************)
(* Identifiers and bindings.                                               *)
(***************************************************************************)
\* what a lookup that starts at env can see: the addresses of the chain and stores
IdentEvent(name, env, s, found, obj) ==
    [ev |-> "ident", name |-> name, env |-> env, found |-> found,
     envs |-> Chain(s.heap, env),
     stores |-> [i \in 1..Len(Chain(s.heap, env)) |-> s.heap[Chain(s.heap, env)[i]].store],
     result |-> obj]

\* mutant: the builtin table is consulted before the environment
evalIdentifierBuiltinFirst(node, env, s) ==
    LET found == Get(s.heap, env, node.name)
        obj == IF node.name \in BuiltinNames THEN Builtin(node.name)
               ELSE IF found.ok THEN found.obj
               ELSE Error("identifier not found: " \o node.name)
    IN  R(obj, Log(s, IdentEvent(node.name, env, s, found.ok, obj)))

evalIdentifier(node, env, s) ==
    LET found == Get(s.heap, env, node.name)
        obj == IF found.ok THEN found.obj
               ELSE IF node.name \in BuiltinNames THEN Builtin(node.name)
               ELSE Error("identifier not found: " \o node.name)
    IN  R(obj, Log(s, IdentEvent(node.name, env, s, found.ok, obj)))

\* env.Set, with the heap before and after it on the trace
Bind(s, env, name, val, by) ==
    LET heap2 == Set(s.heap, env, name, val)
    IN  Log([s EXCEPT !.heap = heap2],
            [ev |-> "set", by |-> by, env |-> env, name |-> name, val |-> val,
             before |-> s.heap, after |-> heap2])

RECURSIVE bindParameters(_, _, _, _, _)
bindParameters(params, args, paramIdx, env, s) ==
    IF paramIdx > Len(params) THEN [obj |-> NIL, env |-> env, st |-> s]
    ELSE IF paramIdx > Len(args)
         THEN [obj |-> Panic("index out of range"), env |-> env, st |-> s]
    ELSE bindParameters(params, args, paramIdx + 1, env,
                        Bind(s, env, params[paramIdx], args[paramIdx], "param"))

\* mutant: the call environment encloses nothing
extendFunctionUnenclosed(fn, args, s) ==
    LET env == Len(s.heap) + 1
        s1 == [s EXCEPT !.heap = Append(@, NewEnvironment)]
    IN  bindParameters(fn.parameters, args, 1, env, s1)

\* mutant: the parameters are bound in the captured environment itself
extendFunctionInPlace(fn, args, s) ==
    bindParameters(fn.parameters, args, 1, fn.env, s)

extendFunction(fn, args, s) ==
    LET env == Len(s.heap) + 1
        s1 == [s EXCEPT !.heap = Append(@, NewEnclosedEnvironment(fn.env))]
    IN  bindParameters(fn.parameters, args, 1, env, s1)


(***************************************************************************)
(* Eval.  Every operator returns R(object, state); a Panic object ends the *)
(* evaluation and is handed up unchanged by every caller.                  *)
(***************************************************************************)
\* One evaluation of a prefix, infix, index, call or array-literal node:
\* the sub-expressions it evaluated, in order, with their values, and whether
\* the node's own operation was entered.
ExprEvent(node, env, subs, vals, applied, obj) ==
    [ev |-> "expr", node |-> node, env |-> env, subs |-> subs, vals |-> vals,
     applied |-> applied, result |-> obj]

RECURSIVE Eval(_, _, _)
RECURSIVE evalBlockStatements(_, _, _)
RECURSIVE evalBlockLoop(_, _, _, _, _, _)
RECURSIVE evalIfExpression(_, _, _)
RECURSIVE evalExpressions(_, _, _)
RECURSIVE evalExpressionsFrom(_, _, _, _, _)
RECURSIVE applyFunction(_, _, _)
RECURSIVE evalHashLoop(_, _, _, _, _, _)
RECURSIVE evalHashLiteral(_, _, _)

EvalPrefixNode(node, env, s) ==
    LET right == Eval(node.right, env, s)
        obj == evalPrefixExpression(node.operator, right.obj)
    IN  IF IsPanic(right.obj) THEN right
        ELSE IF isError(right.obj)
             THEN R(right.obj, Log(right.st,
                      ExprEvent(node, env, <<node.right>>, <<right.obj>>, FALSE, right.obj)))
        ELSE R(obj, Log(right.st,
                 ExprEvent(node, env, <<node.right>>, <<right.obj>>, TRUE, obj)))

EvalInfixNode(node, env, s) ==
    LET left == Eval(node.left, env, s)
        right == Eval(node.right, env, left.st)
        obj == evalInfixExpression(node.operator, left.obj, right.obj)
    IN  IF IsPanic(left.obj) THEN left
        ELSE IF isError(left.obj)
             THEN R(left.obj, Log(left.st,
                      ExprEvent(node, env, <<node.left>>, <<left.obj>>, FALSE, left.obj)))
        ELSE IF IsPanic(right.obj) THEN right
        ELSE IF isError(right.obj)
             THEN R(right.obj, Log(right.st,
                      ExprEvent(node, env, <<node.left, node.right>>,
                                <<left.obj, right.obj>>, FALSE, right.obj)))
        ELSE R(obj, Log(right.st,
                 ExprEvent(node, env, <<node.left, node.right>>,
                           <<left.obj, right.obj>>, TRUE, obj)))

\* the index is evaluated before the container is checked for an error
EvalIndexNode(node, env, s) ==
    LET left == Eval(node.left, env, s)
        index == Eval(node.index, env, left.st)
        subs == <<node.left, node.index>>
        vals == <<left.obj, index.obj>>
        obj == evalIndexExpression(left.obj, index.obj)
    IN  IF IsPanic(left.obj) THEN left
        ELSE IF IsPanic(index.obj) THEN index
        ELSE IF isError(left.obj)
             THEN R(left.obj, Log(index.st, ExprEvent(node, env, subs, vals, FALSE, left.obj)))
        ELSE IF isError(index.obj)
             THEN R(index.obj, Log(index.st, ExprEvent(node, env, subs, vals, FALSE, index.obj)))
        ELSE R(obj, Log(index.st, ExprEvent(node, env, subs, vals, TRUE, obj)))

EvalReturnStatement(node, env, s) ==
    LET val == Eval(node.returnValue, env, s)
    IN  IF IsPanic(val.obj) THEN val
        ELSE IF isError(val.obj) THEN val
        ELSE R(ReturnValue(val.st.next, val.obj), [val.st EXCEPT !.next = @ + 1])

\* mutant: the name is bound before the value is tested for an error
EvalLetStatementBindFirst(node, env, s) ==
    LET val == Eval(node.value, env, s)
        bound == Bind(val.st, env, node.name, val.obj, "let")
        event(obj) ==
            [ev |-> "let", name |-> node.name, env |-> env, val |-> val.obj,
             before |-> val.st.heap, after |-> bound.heap, result |-> obj]
    IN  IF IsPanic(val.obj) THEN val
        ELSE IF isError(val.obj) THEN R(val.obj, Log(bound, event(val.obj)))
        ELSE R(NIL, Log(bound, event(NIL)))

\* a let statement falls out of the switch of Eval: its value is nil
EvalLetStatement(node, env, s) ==
    LET val == Eval(node.value, env, s)
        bound == Bind(val.st, env, node.name, val.obj, "let")
        event(obj, after) ==
            [ev |-> "let", name |-> node.name, env |-> env, val |-> val.obj,
             before |-> val.st.heap, after |-> after, result |-> obj]
    IN  IF IsPanic(val.obj) THEN val
        ELSE IF isError(val.obj)
             THEN R(val.obj, Log(val.st, event(val.obj, val.st.heap)))
        ELSE R(NIL, Log(bound, event(NIL, bound.heap)))

EvalFunctionLiteral(node, env, s) ==
    LET fn == Function(s.next, node.parameters, node.body, env)
    IN  R(fn, Log([s EXCEPT !.next = @ + 1], [ev |-> "fnlit", fn |-> fn, env |-> env]))

EvalCallExpression(node, env, s) ==
    LET function == Eval(node.function, env, s)
        args == evalExpressions(node.arguments, env, function.st)
        subs == <<node.function>> \o SubSeq(node.arguments, 1, Len(args.vals))
        vals == <<function.obj>> \o args.vals
        applied == applyFunction(function.obj, args.args, args.st)
    IN  IF IsPanic(function.obj) THEN function
        ELSE IF isError(function.obj)
             THEN R(function.obj, Log(function.st,
                      ExprEvent(node, env, <<node.function>>, <<function.obj>>,
                                FALSE, function.obj)))
        ELSE IF IsPanic(args.obj) THEN R(args.obj, args.st)
        ELSE IF Len(args.args) = 1 /\ isError(args.args[1])
             THEN R(args.args[1], Log(args.st,
                      ExprEvent(node, env, subs, vals, FALSE, args.args[1])))
        ELSE IF IsPanic(applied.obj) THEN applied
        ELSE R(applied.obj, Log(applied.st,
                 ExprEvent(node, env, subs, vals, TRUE, applied.obj)))

EvalArrayLiteral(node, env, s) ==
    LET elements == evalExpressions(node.elements, env, s)
        subs == SubSeq(node.elements, 1, Len(elements.vals))
        array == Array(elements.st.next, elements.args)
    IN  IF IsPanic(elements.obj) THEN R(elements.obj, elements.st)
        ELSE IF Len(elements.args) = 1 /\ isError(elements.args[1])
             THEN R(elements.args[1], Log(elements.st,
                      ExprEvent(node, env, subs, elements.vals, FALSE, elements.args[1])))
        ELSE R(array, Log([elements.st EXCEPT !.next = @ + 1],
                 ExprEvent(node, env, subs, elements.vals, TRUE, array)))

Eval(node, env, s) ==
    CASE node.kind = "ExpressionStatement" -> Eval(node.expression, env, s)
      [] node.kind = "IntegerLiteral" -> R(Integer(node.value), s)
      [] node.kind = "Boolean" -> R(nativeBoolToBooleanObject(node.bool), s)
      [] node.kind = "PrefixExpression" -> EvalPrefixNode(node, env, s)
      [] node.kind = "InfixExpression" -> EvalInfixNode(node, env, s)
      [] node.kind = "BlockStatement" -> evalBlockStatements(node, env, s)
      [] node.kind = "IfExpression" -> evalIfExpression(node, env, s)
      [] node.kind = "ReturnStatement" -> EvalReturnStatement(node, env, s)
      [] node.kind = "LetStatement" -> EvalLetStatement(node, env, s)
      [] node.kind = "Identifier" -> evalIdentifier(node, env, s)
      [] node.kind = "FunctionLiteral" -> EvalFunctionLiteral(node, env, s)
      [] node.kind = "CallExpression" -> EvalCallExpression(node, env, s)
      [] node.kind = "StringLiteral" -> R(String(node.str), s)
      [] node.kind = "ArrayLiteral" -> EvalArrayLiteral(node, env, s)
      [] node.kind = "IndexExpression" -> EvalIndexNode(node, env, s)
      [] node.kind = "HashLiteral" -> evalHashLiteral(node, env, s)
      [] OTHER -> R(NIL, s)

(***************************************************************************)
(* Statement sequencing.  A statement's evaluation is traced on entry and  *)
(* on exit, with the block activation blk it belongs to; on exit also with *)
(* the activations in progress in the same function call (encl) and in the *)
(* whole evaluation (dyn).  Activation 0 is evalProgram's.                 *)
(***************************************************************************)
StmtEnter(s, blk, idx, node) ==
    Log(s, [ev |-> "stmtEnter", blk |-> blk, idx |-> idx, node |-> node])

StmtExit(s, blk, idx, obj) ==
    Log(s, [ev |-> "stmtExit", blk |-> blk, idx |-> idx, result |-> obj,
            encl |-> {s.active[i] : i \in (s.base + 1)..Len(s.active)},
            dyn |-> {s.active[i] : i \in 1..Len(s.active)}])

\* whether the loop of evalBlockStatements returns at this result
blockStops(obj) ==
    obj # NIL /\ (obj.type = RETURN_VALUE_OBJ \/ obj.type = ERROR_OBJ)

evalBlockLoop(stmts, i, env, s, blk, last) ==
    IF i > Len(stmts) THEN R(last, s)
    ELSE LET r == Eval(stmts[i], env, StmtEnter(s, blk, i, stmts[i]))
             s2 == StmtExit(r.st, blk, i, r.obj)
         IN  IF IsPanic(r.obj) THEN r
             ELSE IF blockStops(r.obj) THEN R(r.obj, s2)
             ELSE evalBlockLoop(stmts, i + 1, env, s2, blk, r.obj)

evalBlockStatements(block, env, s) ==
    LET blk == s.next
        s1 == [s EXCEPT !.next = @ + 1, !.active = Append(@, blk)]
        r == evalBlockLoop(block.statements, 1, env, s1, blk, NIL)
        s2 == [r.st EXCEPT !.active = SubSeq(@, 1, Len(@) - 1)]
    IN  IF IsPanic(r.obj) THEN r
        ELSE R(r.obj, Log(s2, [ev |-> "block", blk |-> blk, node |-> block,
                                result |-> r.obj]))

evalIfExpression(ie, env, s) ==
    LET condition == Eval(ie.condition, env, s)
        event(branches, obj) ==
            [ev |-> "if", node |-> ie, condition |-> condition.obj,
             branches |-> branches, result |-> obj]
        consequence == Eval(ie.consequence, env, condition.st)
        alternative == Eval(ie.alternative, env, condition.st)
    IN  IF IsPanic(condition.obj) THEN condition
        ELSE IF isError(condition.obj) THEN condition
        ELSE IF isTruthy(condition.obj)
             THEN IF IsPanic(consequence.obj) THEN consequence
                  ELSE R(consequence.obj,
                         Log(consequence.st, event(<<"consequence">>, consequence.obj)))
        ELSE IF ie.alternative # NoNode
             THEN IF IsPanic(alternative.obj) THEN alternative
                  ELSE R(alternative.obj,
                         Log(alternative.st, event(<<"alternative">>, alternative.obj)))
        ELSE R(NULL, Log(condition.st, event(<<>>, NULL)))

(***************************************************************************)
(* Function calls.                                                          *)
(***************************************************************************)
\* [obj: a Panic or NIL, args: what evalExpressions returns, vals: the value
\*  of every expression it evaluated, st]
evalExpressionsFrom(exps, i, env, s, args) ==
    IF i > Len(exps) THEN [obj |-> NIL, args |-> args, vals |-> args, st |-> s]
    ELSE LET evaluated == Eval(exps[i], env, s)
         IN  IF IsPanic(evaluated.obj)
             THEN [obj |-> evaluated.obj, args |-> args, vals |-> args, st |-> evaluated.st]
             ELSE IF isError(evaluated.obj)
                  THEN [obj |-> NIL, args |-> <<evaluated.obj>>,
                        vals |-> Append(args, evaluated.obj), st |-> evaluated.st]
             ELSE evalExpressionsFrom(exps, i + 1, env, evaluated.st,
                                      Append(args, evaluated.obj))

evalExpressions(exps, env, s) == evalExpressionsFrom(exps, 1, env, s, <<>>)

applyFunction(fn, args, s) ==
    IF fn = NIL THEN R(NilDeref, s)
    ELSE IF fn.type = FUNCTION_OBJ
    THEN LET extended == extendFunction(fn, args, s)
             s1 == [extended.st EXCEPT !.depth = @ + 1, !.base = Len(extended.st.active)]
             evaluated == Eval(fn.body, extended.env, s1)
             obj == unwrapReturnValue(evaluated.obj)
             s2 == [evaluated.st EXCEPT !.depth = s.depth, !.base = s.base]
         IN  IF s.depth >= MaxCallDepth THEN R(Panic("stack overflow"), s)
             ELSE IF IsPanic(extended.obj) THEN R(extended.obj, extended.st)
             ELSE IF IsPanic(evaluated.obj) THEN evaluated
             ELSE R(obj, Log(s2, [ev |-> "apply", fn |-> fn, args |-> args,
                                  env |-> extended.env,
                                  outer |-> evaluated.st.heap[extended.env].outer,
                                  before |-> s.heap, after |-> evaluated.st.heap,
                                  result |-> obj]))
    ELSE IF fn.type = BUILTIN_OBJ
    THEN LET r == applyBuiltin(fn.name, args, s)
         IN  IF IsPanic(r.obj) THEN r
             ELSE R(r.obj, Log(r.st, [ev |-> "apply", fn |-> fn, args |-> args,
                                      env |-> 0, outer |-> 0,
                                      before |-> s.heap, after |-> r.st.heap,
                                      result |-> r.obj]))
    ELSE R(Error("not a function: " \o fn.type), s)

(***************************************************************************)
(* Hash literals.  The loop of evalHashLiteral ranges over node.Pairs, a   *)
(* map: it visits the pairs in the order the state holds for this          *)
(* iteration (order: the positions of the pairs in the source text, in the *)
(* order visited).  A pair event records each pair stored.                 *)
(***************************************************************************)
\* the positions 1..n in the order in which the permutation perm has them
OrderOf(perm, n) == SelectSeq(perm, LAMBDA k : k <= n)

\* pairs[hashed] = HashPair{Key: key, Value: value}
StorePair(pairs, hashed, pair) ==
    [k \in DOMAIN pairs \cup {hashed} |-> IF k = hashed THEN pair ELSE pairs[k]]

\* mutant: every key object is a key of its own (pairs keyed by identity)
evalHashLoopByIdentity(node, order, i, env, s, pairs) ==
    IF i > Len(order) THEN [obj |-> NIL, pairs |-> pairs, st |-> s]
    ELSE LET nodeKey == node.pairs[order[i]][1]
             nodeValue == node.pairs[order[i]][2]
             key == Eval(nodeKey, env, s)
             value == Eval(nodeValue, env, key.st)
             hashed == IF i = 1 THEN HashKey(key.obj) ELSE [tag |-> "POINTER", hash |-> i]
             stored == StorePair(pairs, hashed, HashPair(key.obj, value.obj))
             stop(obj, s2) == [obj |-> obj, pairs |-> pairs, st |-> s2]
         IN  IF IsPanic(key.obj) \/ isError(key.obj) THEN stop(key.obj, key.st)
             ELSE IF key.obj = NIL THEN stop(NilDeref, key.st)
             ELSE IF ~Hashable(key.obj)
                  THEN stop(Error("unusable as hash key: " \o key.obj.type), key.st)
             ELSE IF IsPanic(value.obj) \/ isError(value.obj) THEN stop(value.obj, value.st)
             ELSE evalHashLoop(node, order, i + 1, env,
                      Log(value.st, [ev |-> "pair", node |-> node, idx |-> order[i],
                                     key |-> key.obj, value |-> value.obj,
                                     before |-> pairs, after |-> stored]),
                      stored)

\* [obj: what ends the loop early (a Panic or an Error) or NIL, pairs, st]
evalHashLoop(node, order, i, env, s, pairs) ==
    IF i > Len(order) THEN [obj |-> NIL, pairs |-> pairs, st |-> s]
    ELSE LET nodeKey == node.pairs[order[i]][1]
             nodeValue == node.pairs[order[i]][2]
             key == Eval(nodeKey, env, s)
             value == Eval(nodeValue, env, key.st)
             stored == StorePair(pairs, HashKey(key.obj), HashPair(key.obj, value.obj))
             stop(obj, s2) == [obj |-> obj, pairs |-> pairs, st |-> s2]
         IN  IF IsPanic(key.obj) \/ isError(key.obj) THEN stop(key.obj, key.st)
             ELSE IF key.obj = NIL THEN stop(NilDeref, key.st)
             ELSE IF ~Hashable(key.obj)
                  THEN stop(Error("unusable as hash key: " \o key.obj.type), key.st)
             ELSE IF IsPanic(value.obj) \/ isError(value.obj) THEN stop(value.obj, value.st)
             ELSE evalHashLoop(node, order, i + 1, env,
                      Log(value.st, [ev |-> "pair", node |-> node, idx |-> order[i],
                                     key |-> key.obj, value |-> value.obj,
                                     before |-> pairs, after |-> stored]),
                      stored)

evalHashLiteral(node, env, s) ==
    LET order == OrderOf(Head(s.orders), Len(node.pairs))
        s1 == [s EXCEPT !.orders = Tail(@) \o <<Head(@)>>]
        r == evalHashLoop(node, order, 1, env, s1, <<>>)
        hash == Hash(r.st.next, r.pairs)
        event(obj) == [ev |-> "hash", node |-> node, env |-> env, order |-> order,
                       result |-> obj]
    IN  IF IsPanic(r.obj) THEN R(r.obj, r.st)
        ELSE IF r.obj # NIL THEN R(r.obj, Log(r.st, event(r.obj)))
        ELSE R(hash, Log([r.st EXCEPT !.next = @ + 1], event(hash)))

(***************************************************************************)
(* The state machine: evalProgram's loop over the statements of a program, *)
(* run against a fresh top-level environment (address 1).                  *)
(***************************************************************************)
TopEnv == 1

\* the order of the source text
DeclaredOrder == [i \in 1..MaxElems |-> i]

InitialState ==
    [heap |-> <<NewEnvironment>>, next |-> 1, depth |-> 0, active |-> <<0>>,
     base |-> 0, trace |-> <<>>, orders |-> <<DeclaredOrder>>]


(***************************************************************************)
(* The programs the model evaluates: ASTs as the parser builds them, and   *)
(* infix nodes with an operator ("&") the evaluator has no case for.       *)
(***************************************************************************)
Lit(i) == IntegerLiteral(i)
Id(name) == Identifier(name)
Block1(stmt) == BlockStatement(<<stmt>>)
Expr(e) == ExpressionStatement(e)

IntLits == {Lit(i) : i \in (-MaxInt)..MaxInt}

\* if (false) { 1 }: NULL
NullExpr == IfExpression(BooleanLiteral(FALSE), Block1(Expr(Lit(1))), NoNode)
\* if (true) { return 1; }: a ReturnValue
ReturnExpr == IfExpression(BooleanLiteral(TRUE), Block1(ReturnStatement(Lit(1))), NoNode)
\* if (true) { let b = 1; }: nil
LetExpr == IfExpression(BooleanLiteral(TRUE), Block1(LetStatement("b", Lit(1))), NoNode)
\* fn(x) { x }
IdentityFn == FunctionLiteral(<<"x">>, Block1(Expr(Id("x"))))

\* expressions of every kind of value
Operands ==
    IntLits \cup
    {BooleanLiteral(TRUE), BooleanLiteral(FALSE), StringLiteral(<<1>>),
     StringLiteral(<<1, 2>>), NullExpr, ArrayLiteral(<<>>), ArrayLiteral(<<Lit(1)>>),
     IdentityFn, Id("len"), Id("first"), Id("foobar"), Id("bar"), ReturnExpr, LetExpr}

PrefixOperators == {"!", "-", "~"}
InfixOperators == {"+", "-", "*", "/", ">", "<", "==", "!=", "&"}

InfixPrograms ==
    {Program(<<Expr(InfixExpression(op, l, r))>>) :
        op \in InfixOperators, l \in Operands, r \in Operands}

\* let a = X; a op a;
IdentityPrograms ==
    {Program(<<LetStatement("a", x), Expr(InfixExpression(op, Id("a"), Id("a")))>>) :
        op \in {"==", "!="}, x \in Operands}

PrefixPrograms ==
    {Program(<<Expr(PrefixExpression(op, x))>>) : op \in PrefixOperators, x \in Operands}
    \cup {Program(<<Expr(PrefixExpression("!", PrefixExpression("!", x)))>>) : x \in Operands}

IfPrograms ==
    {Program(<<Expr(IfExpression(x, Block1(Expr(Lit(1))), alt))>>) :
        x \in Operands, alt \in {NoNode, Block1(Expr(Lit(2)))}}

Elements == {Lit(1), BooleanLiteral(TRUE), StringLiteral(<<1>>)}
ArrayLits ==
    {ArrayLiteral(es) : es \in UNION {[1..n -> Elements] : n \in 0..MaxElems}}

IndexPrograms ==
    {Program(<<Expr(IndexExpression(l, i))>>) : l \in ArrayLits \cup Operands, i \in Operands}

\* call arguments and array elements: a value, two different errors, a
\* ReturnValue and nil
Arguments == {Lit(1), Id("foobar"), Id("bar"), ReturnExpr, LetExpr}
ArgumentLists == UNION {[1..n -> Arguments] : n \in 0..2}
Callees ==
    {FunctionLiteral(<<"x", "y">>, Block1(Expr(Id("x")))), IdentityFn, Id("len"),
     Id("push"), Id("foobar"), Lit(1), LetExpr}

CallPrograms ==
    {Program(<<Expr(CallExpression(f, args))>>) : f \in Callees, args \in ArgumentLists}
    \cup {Program(<<Expr(ArrayLiteral(args))>>) : args \in ArgumentLists}

\* if (true) { if (true) { return 10; } return 1; }
NestedReturn ==
    IfExpression(BooleanLiteral(TRUE),
        BlockStatement(<<
            Expr(IfExpression(BooleanLiteral(TRUE), Block1(ReturnStatement(Lit(10))), NoNode)),
            ReturnStatement(Lit(1))>>),
        NoNode)

Statements ==
    {Expr(Id("a")), Expr(Lit(9)), ReturnStatement(Lit(1)), LetStatement("a", Lit(1)),
     LetStatement("a", Lit(2)), LetStatement("a", Id("foobar")),
     LetStatement("a", ReturnExpr), Expr(NestedReturn)}

StatementPrograms ==
    {Program(stmts) : stmts \in UNION {[1..n -> Statements] : n \in 0..MaxStmts}}

\* let x = A; let f = fn() { x }; let g = fn(x) { f() }; g(B);
ScopeProgram(a, b) ==
    Program(<<LetStatement("x", a),
              LetStatement("f", FunctionLiteral(<<>>, Block1(Expr(Id("x"))))),
              LetStatement("g", FunctionLiteral(<<"x">>,
                  Block1(Expr(CallExpression(Id("f"), <<>>))))),
              Expr(CallExpression(Id("g"), <<b>>))>>)

\* let newAdder = fn(x) { fn(y) { x + y } }; let addTwo = newAdder(A); addTwo(B);
AdderProgram(a, b) ==
    Program(<<LetStatement("newAdder", FunctionLiteral(<<"x">>,
                  Block1(Expr(FunctionLiteral(<<"y">>,
                      Block1(Expr(InfixExpression("+", Id("x"), Id("y"))))))))),
              LetStatement("addTwo", CallExpression(Id("newAdder"), <<a>>)),
              Expr(CallExpression(Id("addTwo"), <<b>>))>>)

\* let x = A; let f = fn(x) { let x = B; x }; f(C); x; let x = bar;
ShadowProgram(name, a, b, c) ==
    Program(<<LetStatement(name, a),
              LetStatement("f", FunctionLiteral(<<name>>,
                  BlockStatement(<<LetStatement(name, b), Expr(Id(name))>>))),
              Expr(CallExpression(Id("f"), <<c>>)),
              Expr(Id(name)),
              LetStatement(name, Id("bar"))>>)

\* let x = A; fn() { let y = B; fn() { x }() }();
InnerProgram(name, a) ==
    Program(<<LetStatement(name, a),
              Expr(CallExpression(FunctionLiteral(<<>>,
                  BlockStatement(<<LetStatement("y", Lit(0)),
                      Expr(CallExpression(FunctionLiteral(<<>>, Block1(Expr(Id(name)))),
                                          <<>>))>>)), <<>>))>>)

\* let f = fn() { f() }; f();
LoopProgram ==
    Program(<<LetStatement("f", FunctionLiteral(<<>>,
                  Block1(Expr(CallExpression(Id("f"), <<>>))))),
              Expr(CallExpression(Id("f"), <<>>))>>)

ScopePrograms ==
    {ScopeProgram(a, b) : a \in IntLits, b \in IntLits}
    \cup {AdderProgram(a, b) : a \in IntLits, b \in IntLits}
    \cup {ShadowProgram(n, a, b, c) :
            n \in {"x", "len"}, a \in IntLits, b \in {Lit(0), Id("foobar")}, c \in {Lit(1)}}
    \cup {InnerProgram(n, a) : n \in {"x", "len", "first"}, a \in IntLits}
    \cup {Program(<<Expr(Id(n))>>) : n \in {"len", "print", "x"}}
    \cup {LoopProgram}

\* arguments of every type for the builtins
BuiltinArguments == ArrayLits \cup Operands \cup {StringLiteral(<<>>)}

Call(name, args) == CallExpression(Id(name), args)

\* every builtin on no, one, two and three arguments
BuiltinPrograms ==
    {Program(<<Expr(Call(f, <<>>))>>) : f \in BuiltinNames}
    \cup {Program(<<Expr(Call(f, <<x>>))>>) : f \in BuiltinNames, x \in BuiltinArguments}
    \cup {Program(<<Expr(Call(f, <<x, y>>))>>) :
            f \in BuiltinNames, x \in ArrayLits \cup {Lit(1), NullExpr},
            y \in {Lit(2), ArrayLiteral(<<>>), StringLiteral(<<1>>)}}
    \cup {Program(<<Expr(Call(f, <<Lit(1), Lit(2), Lit(1)>>))>>) : f \in BuiltinNames}

\* let a = ARR; let b = push(a, X); let c = SECOND; a;
\* where SECOND is a push or a rest on a or on b
PurityProgram(arr, x, second) ==
    Program(<<LetStatement("a", arr),
              LetStatement("b", Call("push", <<Id("a"), x>>)),
              LetStatement("c", second),
              Expr(Id("a"))>>)

\* let a = ARR; let b = rest(a); let c = SECOND; a;
RestProgram(arr, second) ==
    Program(<<LetStatement("a", arr),
              LetStatement("b", Call("rest", <<Id("a")>>)),
              LetStatement("c", second),
              Expr(Id("a"))>>)

SecondCalls ==
    {Call("push", <<Id("b"), Lit(0)>>), Call("rest", <<Id("b")>>),
     Call("push", <<Id("a"), Lit(0)>>), Call("rest", <<Id("a")>>)}

PurityPrograms ==
    {PurityProgram(arr, x, c) : arr \in ArrayLits, x \in {Lit(2), Id("a")}, c \in SecondCalls}
    \cup {RestProgram(arr, c) : arr \in ArrayLits, c \in SecondCalls}

\* fn(x, y) { BODY }(ARGS): fewer, as many and more arguments than parameters
ArityPrograms ==
    {Program(<<LetStatement("y", Lit(0)),
               Expr(CallExpression(FunctionLiteral(params, Block1(Expr(body))), args))>>) :
        params \in {<<>>, <<"x">>, <<"x", "y">>, <<"x", "z">>},
        body \in {Lit(9), Id("x"), Id("y"), Id("z")},
        args \in {<<>>, <<Lit(1)>>, <<Lit(1), Lit(2)>>}}

Programs ==
    InfixPrograms \cup IdentityPrograms \cup PrefixPrograms \cup IfPrograms
    \cup IndexPrograms \cup CallPrograms \cup StatementPrograms \cup ScopePrograms
    \cup BuiltinPrograms \cup PurityPrograms \cup ArityPrograms

(***************************************************************************)
(* Programs with hash literals.  "1" is the string of the byte 49; the key *)
(* "ab" is written as a literal and computed as "a" + "b".                 *)
(***************************************************************************)
Str(bytes) == StringLiteral(bytes)
Concat == InfixExpression("+", Str(<<97>>), Str(<<98>>))

\* pairs with equal keys and different values, keys of three types, a key
\* and a value that are errors, and a key that cannot be hashed
PairChoices ==
    {Pair(Lit(1), Lit(1)), Pair(Lit(1), Lit(2)), Pair(BooleanLiteral(TRUE), Lit(2)),
     Pair(Str(<<97, 98>>), Lit(1)), Pair(Concat, Lit(2)),
     Pair(Id("foobar"), Lit(1)), Pair(Lit(2), Id("bar")), Pair(IdentityFn, Lit(1))}

HashLits ==
    {HashLiteral(pairs) : pairs \in UNION {[1..n -> PairChoices] : n \in 0..MaxElems}}

HashKeys == {Lit(1), BooleanLiteral(TRUE), Str(<<49>>), Str(<<97, 98>>)}

HashIndexes ==
    HashKeys \cup
    {Lit(2), BooleanLiteral(FALSE), Concat, IdentityFn, ArrayLiteral(<<>>), NullExpr,
     LetExpr, ReturnExpr, Id("foobar"), HashLiteral(<<>>)}

HashPrograms ==
    {Program(<<Expr(h)>>) : h \in HashLits}
    \cup {Program(<<Expr(IndexExpression(
                HashLiteral(<<Pair(k1, Lit(1)), Pair(k2, Lit(2))>>), i))>>) :
            k1 \in HashKeys, k2 \in HashKeys, i \in HashIndexes}
    \cup {Program(<<Expr(IndexExpression(x, HashLiteral(<<>>)))>>) :
            x \in {Lit(1), ArrayLiteral(<<Lit(1)>>), HashLiteral(<<>>)}}
    \cup {Program(<<Expr(Call(f, <<HashLiteral(<<>>)>>))>>) : f \in BuiltinNames}
    \cup {Program(<<Expr(InfixExpression(op, HashLiteral(<<>>), HashLiteral(<<>>)))>>) :
            op \in {"==", "+"}}

\* the orders two successive iterations over a map may take
Oracles == [1..2 -> Permutations(1..MaxElems)]

\* A token is its type and its literal.
Token(type, literal) == [type |-> type, literal |-> literal]

\* the zero Token of a Parser that has read nothing yet
NoToken == Token("", "")

Lexer(input) == [input |-> input, position |-> 1]

\* the parser of a run that parses nothing
IdleParser == [l |-> Lexer(<<>>), curToken |-> NoToken, peekToken |-> NoToken,
               errors |-> <<>>]

Init ==
    /\ \/ program \in Programs /\ st = InitialState
       \/ /\ program \in HashPrograms
          /\ \E orders \in Oracles : st = [InitialState EXCEPT !.orders = orders]
    /\ pc = 1
    /\ result = NIL
    /\ status = "running"
    /\ run = 1
    /\ previous = <<>>
    /\ parser = IdleParser
    /\ parsed = <<>>
    /\ ppc = "idle"
    /\ pending = NoNode

\* one iteration of evalProgram's loop
EvalProgramStatement ==
    /\ status = "running"
    /\ pc <= Len(program.statements)
    /\ LET stmt == program.statements[pc]
           r == Eval(stmt, TopEnv, StmtEnter(st, 0, pc, stmt))
       IN  IF IsPanic(r.obj)
           THEN /\ status' = "panic"
                /\ result' = r.obj
                /\ st' = r.st
                /\ pc' = pc
           ELSE /\ st' = StmtExit(r.st, 0, pc, r.obj)
                /\ IF r.obj # NIL /\ r.obj.type = RETURN_VALUE_OBJ
                   THEN result' = r.obj.value /\ status' = "done" /\ pc' = pc
                   ELSE IF r.obj # NIL /\ r.obj.type = ERROR_OBJ
                   THEN result' = r.obj /\ status' = "done" /\ pc' = pc
                   ELSE result' = r.obj /\ status' = "running" /\ pc' = pc + 1
    /\ UNCHANGED <<program, run, previous>>
    /\ UNCHANGED parserVars

\* the loop is over: evalProgram returns the last result
EvalProgramReturn ==
    /\ status = "running"
    /\ pc > Len(program.statements)
    /\ status' = "done"
    /\ UNCHANGED <<program, pc, result, st, run, previous>>
    /\ UNCHANGED parserVars

\* the same Program is evaluated once more, against a fresh environment
Reevaluate ==
    /\ status = "done"
    /\ run = 1
    /\ run' = 2
    /\ previous' = Append(previous, result)
    /\ pc' = 1
    /\ result' = NIL
    /\ status' = "running"
    /\ st' = [InitialState EXCEPT !.orders = st.orders]
    /\ UNCHANGED program
    /\ UNCHANGED parserVars

Next == EvalProgramStatement \/ EvalProgramReturn \/ Reevaluate

Spec == Init /\ [][Next]_vars

(***************************************************************************)
(* The parser.  The lexer is the input and the position of the token it    *)
(* returns next; it returns EOF for ever once the input is exhausted.      *)
(***************************************************************************)
EOF == "EOF"
IDENT == "IDENT"
INT == "INT"
ASSIGN == "="
PLUS == "+"
MINUS == "-"
BANG == "!"
ASTERISK == "*"
EQ == "=="
SEMICOLON == ";"
tokenLET == "LET"
RETURN == "RETURN"

NextToken(l) ==
    IF l.position <= Len(l.input)
    THEN [tok |-> l.input[l.position], l |-> [l EXCEPT !.position = @ + 1]]
    ELSE [tok |-> Token(EOF, ""), l |-> l]

\* precedences of the operators, lowest first
LOWEST == 1
EQUALS == 2
LESSERGREATER == 3
SUM == 4
PRODUCT == 5
PREFIX == 6
CALL == 7

nextToken(p) ==
    LET next == NextToken(p.l)
    IN  [p EXCEPT !.curToken = p.peekToken, !.peekToken = next.tok, !.l = next.l]

curTokenIs(p, t) == p.curToken.type = t

peekTokenIs(p, t) == p.peekToken.type = t

peekError(p, t) ==
    [p EXCEPT !.errors = Append(@, "expected next token to be " \o t
                                      \o ", got " \o p.peekToken.type \o " instead")]

\* mutant: a failed expectation consumes the offending token
expectPeekSkipping(p, t) ==
    IF peekTokenIs(p, t)
    THEN [ok |-> TRUE, p |-> nextToken(p)]
    ELSE [ok |-> FALSE, p |-> nextToken(peekError(p, t))]

expectPeek(p, t) ==
    IF peekTokenIs(p, t)
    THEN [ok |-> TRUE, p |-> nextToken(p)]
    ELSE [ok |-> FALSE, p |-> peekError(p, t)]

noPrefixParseFnError(p, t) ==
    [p EXCEPT !.errors = Append(@, "no prefix parse function found for " \o t)]

\* the token types New registers a prefix parse function for; it registers
\* no infix parse function
prefixParseFns == {IDENT, INT, BANG, MINUS}

New(l) ==
    nextToken(nextToken([l |-> l, curToken |-> NoToken, peekToken |-> NoToken,
                         errors |-> <<>>]))

\* the value of the digits of an integer token
ParseInt(literal) ==
    CASE literal = "5" -> 5
      [] literal = "7" -> 7
      [] literal = "10" -> 10

\* a parse function returns the node it built and the parser it leaves
Parsed(node, p) == [node |-> node, p |-> p]

parseIdentifer(p) == Parsed(Identifier(p.curToken.literal), p)

parseIntegerLiteral(p) == Parsed(IntegerLiteral(ParseInt(p.curToken.literal)), p)

RECURSIVE parseExpression(_, _)
parsePrefixExpression(p) ==
    LET right == parseExpression(nextToken(p), PREFIX)
    IN  Parsed(PrefixExpression(p.curToken.literal, right.node), right.p)

parseExpression(p, precedence) ==
    IF p.curToken.type \notin prefixParseFns
    THEN Parsed(NoNode, noPrefixParseFnError(p, p.curToken.type))
    ELSE CASE p.curToken.type = IDENT -> parseIdentifer(p)
           [] p.curToken.type = INT -> parseIntegerLiteral(p)
           [] OTHER -> parsePrefixExpression(p)

parseExpressionStatement(p) ==
    LET e == parseExpression(p, LOWEST)
    IN  Parsed(ExpressionStatement(e.node),
               IF peekTokenIs(e.p, SEMICOLON) THEN nextToken(e.p) ELSE e.p)

\* a nil *ast.LetStatement: what parseLetStatement returns when expectPeek
\* fails.  parseStatement returns it as an ast.Statement, an interface value
\* that holds a nil pointer and is itself not nil.
NilLetStatement == [kind |-> "LetStatement", nil |-> TRUE]

\* parseLetStatement up to its loop, which skips to the semicolon without
\* parsing the value
parseLetStatement(p) ==
    LET name == expectPeek(p, IDENT)
        assign == expectPeek(name.p, ASSIGN)
    IN  IF ~name.ok THEN [ok |-> FALSE, node |-> NilLetStatement, p |-> name.p]
        ELSE IF ~assign.ok
        THEN [ok |-> FALSE, node |-> NilLetStatement, p |-> assign.p]
        ELSE [ok |-> TRUE, node |-> LetStatement(name.p.curToken.literal, NoNode),
              p |-> assign.p]

\* parseReturnStatement up to its loop
parseReturnStatement(p) == Parsed(ReturnStatement(NoNode), nextToken(p))

\* the check of ParseProgram before it appends: stmt != nil
IsNilStatement(node) == node = NoNode

AppendStatement(statements, node) ==
    IF IsNilStatement(node) THEN statements ELSE Append(statements, node)

\* The token sequences the parser is given.
Alphabet ==
    {Token(tokenLET, "let"), Token(RETURN, "return"), Token(IDENT, "a"),
     Token(INT, "5"), Token(ASSIGN, "="), Token(SEMICOLON, ";"),
     Token(BANG, "!"), Token(MINUS, "-"), Token(PLUS, "+"),
     Token(ASTERISK, "*")}

\* x op y and x op y op z, with or without a closing semicolon
InfixInputs ==
    LET operands == {Token(IDENT, "a"), Token(IDENT, "b"), Token(INT, "5")}
        operators == {Token(PLUS, "+"), Token(ASTERISK, "*"), Token(EQ, "==")}
        ends == {<<>>, <<Token(SEMICOLON, ";")>>}
    IN  {<<x, o, y>> \o end :
            x \in operands, o \in operators, y \in operands, end \in ends}
        \cup {<<x, o1, y, o2, z>> \o end :
                x \in operands, o1 \in operators, y \in operands,
                o2 \in operators, z \in {Token(IDENT, "c"), Token(INT, "7")},
                end \in ends}

\* the malformed constructs: a let not followed by an identifier, a let not
\* followed by =, a token with no prefix parse function
Malformed ==
    {<<Token(tokenLET, "let")>>, <<Token(tokenLET, "let"), Token(IDENT, "a")>>,
     <<Token(PLUS, "+")>>, <<Token(ASSIGN, "=")>>, <<Token(ASTERISK, "*")>>}

\* well-formed statements, none of which starts with an identifier or = and
\* none of which ends with another one
WellFormed ==
    {<<Token(tokenLET, "let"), Token(IDENT, "b"), Token(ASSIGN, "="),
       Token(INT, "10"), Token(SEMICOLON, ";")>>,
     <<Token(RETURN, "return"), Token(INT, "7"), Token(SEMICOLON, ";")>>,
     <<Token(INT, "5"), Token(SEMICOLON, ";")>>,
     <<Token(BANG, "!"), Token(IDENT, "b"), Token(SEMICOLON, ";")>>}

RecoveryInputs ==
    {bad \o good : bad \in Malformed, good \in WellFormed}
    \cup {good \o bad \o next :
            good \in WellFormed, bad \in Malformed, next \in WellFormed}

\* every token sequence of at most MaxTokens tokens, and the longer ones above
TokenInputs ==
    UNION {[1..k -> Alphabet] : k \in 0..MaxTokens}
    \cup InfixInputs \cup RecoveryInputs

ParserInit ==
    /\ \E input \in TokenInputs : parser = New(Lexer(input))
    /\ parsed = <<>>
    /\ ppc = "ParseProgram"
    /\ pending = NoNode
    /\ program = Program(<<>>)
    /\ pc = 1
    /\ result = NIL
    /\ status = "idle"
    /\ st = InitialState
    /\ run = 1
    /\ previous = <<>>

\* one iteration of ParseProgram's loop, up to the loop of parseLetStatement
\* or of parseReturnStatement if the statement has one
ParseStatement ==
    /\ ppc = "ParseProgram"
    /\ ~curTokenIs(parser, EOF)
    /\ IF curTokenIs(parser, tokenLET)
       THEN LET head == parseLetStatement(parser)
            IN  IF head.ok
                THEN /\ ppc' = "parseLetStatement"
                     /\ pending' = head.node
                     /\ parser' = head.p
                     /\ parsed' = parsed
                ELSE /\ ppc' = "ParseProgram"
                     /\ pending' = NoNode
                     /\ parsed' = AppendStatement(parsed, head.node)
                     /\ parser' = nextToken(head.p)
       ELSE IF curTokenIs(parser, RETURN)
       THEN LET head == parseReturnStatement(parser)
            IN  /\ ppc' = "parseReturnStatement"
                /\ pending' = head.node
                /\ parser' = head.p
                /\ parsed' = parsed
       ELSE LET s == parseExpressionStatement(parser)
            IN  /\ ppc' = "ParseProgram"
                /\ pending' = NoNode
                /\ parsed' = AppendStatement(parsed, s.node)
                /\ parser' = nextToken(s.p)
    /\ UNCHANGED evaluatorVars

\* one iteration of the loop that skips to the semicolon
SkipToken ==
    /\ ppc \in {"parseLetStatement", "parseReturnStatement"}
    /\ ~curTokenIs(parser, SEMICOLON)
    /\ parser' = nextToken(parser)
    /\ UNCHANGED <<parsed, ppc, pending>>
    /\ UNCHANGED evaluatorVars

\* the semicolon is reached: the statement is returned to ParseProgram, which
\* appends it and moves on
StatementParsed ==
    /\ ppc \in {"parseLetStatement", "parseReturnStatement"}
    /\ curTokenIs(parser, SEMICOLON)
    /\ parsed' = AppendStatement(parsed, pending)
    /\ parser' = nextToken(parser)
    /\ ppc' = "ParseProgram"
    /\ pending' = NoNode
    /\ UNCHANGED evaluatorVars

\* the current token is EOF: ParseProgram returns the Program
ParseProgramReturn ==
    /\ ppc = "ParseProgram"
    /\ curTokenIs(parser, EOF)
    /\ ppc' = "done"
    /\ UNCHANGED <<parser, parsed, pending>>
    /\ UNCHANGED evaluatorVars

ParserNext == ParseStatement \/ SkipToken \/ StatementParsed \/ ParseProgramReturn

ParserSpec == ParserInit /\ [][ParserNext]_vars


(***************************************************************************)
(* Reading the trace.                                                       *)
(***************************************************************************)
Trace == st.trace
Events(kind) == {i \in 1..Len(Trace) : Trace[i].ev = kind}
IsObject(obj, type) == obj # NIL /\ obj.type = type
Done == status = "done"

(***************************************************************************)
(* C1: evaluating a Program or a BlockStatement evaluates its statements   *)
(* in order and stops at the first statement whose result is a ReturnValue *)
(* or an Error: no later statement of that block, of any enclosing block   *)
(* or of the program is evaluated; a block yields the ReturnValue still    *)
(* wrapped, the Program the wrapped value (or the Error itself).           *)
(* The enclosing blocks of a statement that yields a ReturnValue are those *)
(* in progress in the same function call (a return ends the call, not the  *)
(* caller); of one that yields an Error, all blocks in progress.           *)
(***************************************************************************)
\* statement k of an activation is entered right after statement k - 1 of it
\* was left with a result that does not stop the block
C1_InOrder ==
    \A j \in Events("stmtEnter") :
        IF Trace[j].idx = 1
        THEN \A i \in Events("stmtEnter") : i < j => Trace[i].blk # Trace[j].blk
        ELSE \E i \in Events("stmtExit") :
                /\ i < j
                /\ Trace[i].blk = Trace[j].blk
                /\ Trace[i].idx = Trace[j].idx - 1
                /\ ~blockStops(Trace[i].result)

C1_NoLaterStatement ==
    \A i \in Events("stmtExit") : \A j \in Events("stmtEnter") :
        i < j =>
            /\ IsObject(Trace[i].result, RETURN_VALUE_OBJ) => Trace[j].blk \notin Trace[i].encl
            /\ IsObject(Trace[i].result, ERROR_OBJ) => Trace[j].blk \notin Trace[i].dyn

C1_BlockYields ==
    \A i \in Events("stmtExit") : \A j \in Events("block") :
        (i < j /\ Trace[i].blk = Trace[j].blk /\ blockStops(Trace[i].result))
            => Trace[j].result = Trace[i].result

C1_ProgramYields ==
    Done => \A i \in Events("stmtExit") :
        Trace[i].blk = 0 =>
            /\ IsObject(Trace[i].result, RETURN_VALUE_OBJ) => result = Trace[i].result.value
            /\ IsObject(Trace[i].result, ERROR_OBJ) => result = Trace[i].result

C1_StatementsStopAtReturnOrError ==
    C1_InOrder /\ C1_NoLaterStatement /\ C1_BlockYields /\ C1_ProgramYields


(***************************************************************************)
(* C2: a function call evaluates the body in a new environment whose outer *)
(* is the environment in which the function literal was evaluated, not the *)
(* caller's: a free variable of the body resolves to the binding of the    *)
(* defining scope, also when the caller's scope binds the same name to     *)
(* another value and also after the defining call has returned.            *)
(***************************************************************************)
Calls == {i \in Events("apply") : Trace[i].fn.type = FUNCTION_OBJ}

\* the innermost store of a chain of stores that binds name (0: none)
Innermost(stores, name) ==
    LET hits == {k \in 1..Len(stores) : name \in DOMAIN stores[k]}
    IN  IF hits = {} THEN 0 ELSE CHOOSE k \in hits : \A h \in hits : k <= h

C2_OuterIsDefiningEnv ==
    \A a \in Calls :
        /\ Trace[a].env \notin DOMAIN Trace[a].before
        /\ \E f \in Events("fnlit") :
              /\ f < a
              /\ Trace[f].fn.id = Trace[a].fn.id
              /\ Trace[a].outer = Trace[f].env

C2_FreeVariable ==
    \A a \in Calls : \A d \in Events("ident") : \A f \in Events("fnlit") :
        (/\ Trace[d].env = Trace[a].env
         /\ Trace[f].fn.id = Trace[a].fn.id
         /\ Trace[d].name \notin DOMAIN Trace[d].stores[1])
        => /\ Tail(Trace[d].envs) = Chain(Trace[a].after, Trace[f].env)
           /\ LET k == Innermost(Tail(Trace[d].stores), Trace[d].name)
              IN  k # 0 => Trace[d].result = Trace[d].stores[k + 1][Trace[d].name]

C2_Programs ==
    Done => \A a \in IntLits, b \in IntLits :
        /\ program = ScopeProgram(a, b) => result = Integer(a.value)
        /\ program = AdderProgram(a, b) => result = Integer(a.value + b.value)

C2_CallUsesDefiningScope == C2_OuterIsDefiningEnv /\ C2_FreeVariable /\ C2_Programs

\* a call from a scope that binds the free variable of the body to another
\* value than the defining scope does
C2_Witness ==
    \E a \in Calls : \E d \in Events("ident") : \E c \in Events("expr") :
        /\ Trace[d].env = Trace[a].env
        /\ Trace[d].name \notin DOMAIN Trace[d].stores[1]
        /\ Trace[c].node.kind = "CallExpression"
        /\ Trace[c].applied
        /\ Trace[c].vals[1] = Trace[a].fn
        /\ Trace[c].env # Trace[a].outer
        /\ Trace[d].name \in DOMAIN st.heap[Trace[c].env].store
        /\ st.heap[Trace[c].env].store[Trace[d].name] # Trace[d].result
        /\ Trace[d].result.type = INTEGER_OBJ

(***************************************************************************)
(* C3: the object returned by Eval for the Program and the object returned *)
(* by every function call is a plain value and never a ReturnValue, and no *)
(* environment binding and no call argument ever holds a ReturnValue.      *)
(***************************************************************************)
C3_NoReturnValueVisible ==
    /\ Done => ~IsObject(result, RETURN_VALUE_OBJ)
    /\ \A a \in Events("apply") :
          /\ ~IsObject(Trace[a].result, RETURN_VALUE_OBJ)
          /\ \A k \in 1..Len(Trace[a].args) : ~IsObject(Trace[a].args[k], RETURN_VALUE_OBJ)
    /\ \A e \in 1..Len(st.heap) : \A n \in DOMAIN st.heap[e].store :
          ~IsObject(st.heap[e].store[n], RETURN_VALUE_OBJ)

(***************************************************************************)
(* C4: in a prefix, infix, index, call or array-literal expression the     *)
(* sub-expressions are evaluated left to right, and as soon as one of them *)
(* evaluates to an Error that Error is the result of the whole expression  *)
(* and no sub-expression to its right is evaluated.                        *)
(***************************************************************************)
Children(node) ==
    CASE node.kind = "PrefixExpression" -> <<node.right>>
      [] node.kind = "InfixExpression" -> <<node.left, node.right>>
      [] node.kind = "IndexExpression" -> <<node.left, node.index>>
      [] node.kind = "CallExpression" -> <<node.function>> \o node.arguments
      [] node.kind = "ArrayLiteral" -> node.elements

C4_LeftToRightUntilError ==
    \A e \in Events("expr") :
        LET n == Len(Trace[e].subs)
            children == Children(Trace[e].node)
        IN  /\ n <= Len(children)
            /\ Trace[e].subs = SubSeq(children, 1, n)
            /\ \A k \in 1..(n - 1) : ~isError(Trace[e].vals[k])
            /\ (n >= 1 /\ isError(Trace[e].vals[n])) => Trace[e].result = Trace[e].vals[n]
            /\ n < Len(children) => (n >= 1 /\ isError(Trace[e].vals[n]))


(***************************************************************************)
(* C5: infix dispatch on an operand pair that is not Integer-Integer and   *)
(* not String-String: == and != compare the two objects by identity and    *)
(* yield a Boolean (for Boolean and Null operands this is value equality); *)
(* every other operator yields "type mismatch: <T1> <op> <T2>" when the    *)
(* operand types differ and "unknown operator: <T> <op> <T>" when they are *)
(* the same; an unsupported operator on two Integers or two Strings also   *)
(* yields the "unknown operator" error.                                    *)
(***************************************************************************)
\* the evaluations of infix nodes that entered evalInfixExpression with two objects
InfixEvents ==
    {e \in Events("expr") :
        /\ Trace[e].node.kind = "InfixExpression"
        /\ Trace[e].applied
        /\ Trace[e].vals[1] # NIL
        /\ Trace[e].vals[2] # NIL}

IntegerOperators == {"+", "-", "*", "/", ">", "<", "==", "!="}
StringOperators == {"+", ">", "<", "==", "!="}

C5_InfixDispatch ==
    \A e \in InfixEvents :
        LET op == Trace[e].node.operator
            l == Trace[e].vals[1]
            r == Trace[e].vals[2]
            res == Trace[e].result
            unknown == Error("unknown operator: " \o l.type \o " " \o op \o " " \o r.type)
            mismatch == Error("type mismatch: " \o l.type \o " " \o op \o " " \o r.type)
        IN  IF l.type = INTEGER_OBJ /\ r.type = INTEGER_OBJ
            THEN op \notin IntegerOperators => res = unknown
            ELSE IF l.type = STRING_OBJ /\ r.type = STRING_OBJ
            THEN op \notin StringOperators => res = unknown
            ELSE /\ op = "==" => res = (IF l = r THEN TRUE_ ELSE FALSE_)
                 /\ op = "!=" => res = (IF l = r THEN FALSE_ ELSE TRUE_)
                 /\ (op = "==" /\ l.type = BOOLEAN_OBJ /\ r.type = BOOLEAN_OBJ)
                        => res.bool = (l.bool = r.bool)
                 /\ (op = "==" /\ l.type = NULL_OBJ /\ r.type = NULL_OBJ) => res = TRUE_
                 /\ (op \notin {"==", "!="} /\ l.type # r.type) => res = mismatch
                 /\ (op \notin {"==", "!="} /\ l.type = r.type) => res = unknown

\* two arrays that are equal element by element and are two objects: == is false
C5_Witness ==
    \E e \in InfixEvents :
        /\ Trace[e].node.operator = "=="
        /\ Trace[e].vals[1].type = ARRAY_OBJ
        /\ Trace[e].vals[2].type = ARRAY_OBJ
        /\ Trace[e].vals[1].elements = Trace[e].vals[2].elements
        /\ Trace[e].vals[1].id # Trace[e].vals[2].id
        /\ Trace[e].result = FALSE_

(***************************************************************************)
(* C6: an identifier is resolved first in the environment chain, then in   *)
(* the fixed builtin table, and yields "identifier not found: <name>" only *)
(* when absent from both; a user binding whose name is a builtin's shadows *)
(* the builtin in that scope and in every scope enclosed by it.            *)
(***************************************************************************)
C6_IdentifierResolution ==
    \A d \in Events("ident") :
        LET name == Trace[d].name
            k == Innermost(Trace[d].stores, name)
        IN  IF k # 0 THEN Trace[d].result = Trace[d].stores[k][name]
            ELSE IF name \in {"len", "first", "last", "rest", "push", "print"}
                 THEN Trace[d].result = Builtin(name)
            ELSE Trace[d].result = Error("identifier not found: " \o name)

\* a builtin's name, referred to in a scope enclosed by the one that binds it
C6_Witness ==
    \E d \in Events("ident") :
        /\ Trace[d].name = "len"
        /\ Innermost(Trace[d].stores, "len") >= 2
        /\ Trace[d].result.type = INTEGER_OBJ

(***************************************************************************)
(* C7: a let statement whose value expression evaluates to an Error yields *)
(* that Error and leaves the environment unchanged; otherwise it binds the *)
(* name to the value in the current environment, overwriting a previous    *)
(* local binding of that name, so that a later reference to the name       *)
(* yields that value.                                                      *)
(***************************************************************************)
C7_LetBinds ==
    \A l \in Events("let") :
        LET env == Trace[l].env
            old == Trace[l].before[env].store
            new == Trace[l].after[env].store
        IN  IF isError(Trace[l].val)
            THEN Trace[l].result = Trace[l].val /\ Trace[l].after = Trace[l].before
            ELSE /\ Trace[l].result = NIL
                 /\ DOMAIN new = DOMAIN old \cup {Trace[l].name}
                 /\ new[Trace[l].name] = Trace[l].val
                 /\ \A n \in DOMAIN old : n # Trace[l].name => new[n] = old[n]

\* a reference in the environment of the let, with no binding of the name
\* in that environment in between
C7_LaterReference ==
    \A l \in Events("let") : \A d \in Events("ident") :
        (/\ l < d
         /\ ~isError(Trace[l].val)
         /\ Trace[d].env = Trace[l].env
         /\ Trace[d].name = Trace[l].name
         /\ \A b \in Events("set") :
               (l < b /\ b < d) => ~(Trace[b].env = Trace[l].env /\ Trace[b].name = Trace[l].name))
        => Trace[d].result = Trace[l].val

C7_LetStatement == C7_LetBinds /\ C7_LaterReference

\* a let that overwrites a binding, a later reference that yields the new
\* value, and a let of an Error that left a binding as it was
C7_Witness ==
    /\ \E l \in Events("let") : \E d \in Events("ident") :
          /\ l < d
          /\ Trace[l].name \in DOMAIN Trace[l].before[Trace[l].env].store
          /\ Trace[l].before[Trace[l].env].store[Trace[l].name] # Trace[l].val
          /\ Trace[l].val.type = INTEGER_OBJ
          /\ Trace[d].name = Trace[l].name
          /\ Trace[d].result = Trace[l].val
    /\ \E l \in Events("let") :
          /\ isError(Trace[l].val)
          /\ Trace[l].name \in DOMAIN Trace[l].before[Trace[l].env].store

(***************************************************************************)
(* C8: Environment.set(name, value) changes only the local bindings of the *)
(* environment it is called on: after any sequence of let statements and   *)
(* parameter bindings inside function calls, every binding of every outer  *)
(* (captured or top-level) environment is unchanged; get(name) returns the *)
(* binding of the innermost environment of the chain that binds name, and  *)
(* not-found when none does.                                               *)
(***************************************************************************)
C8_SetIsLocal ==
    \A b \in Events("set") :
        /\ Len(Trace[b].after) = Len(Trace[b].before)
        /\ \A e \in 1..Len(Trace[b].before) :
              /\ Trace[b].after[e].outer = Trace[b].before[e].outer
              /\ e # Trace[b].env => Trace[b].after[e] = Trace[b].before[e]
              /\ \A n \in DOMAIN Trace[b].before[e].store :
                    n # Trace[b].name =>
                        /\ n \in DOMAIN Trace[b].after[e].store
                        /\ Trace[b].after[e].store[n] = Trace[b].before[e].store[n]

\* a function call leaves every environment that existed before it as it was
C8_CallLeavesOuterEnvs ==
    \A a \in Calls :
        /\ Len(Trace[a].after) >= Len(Trace[a].before)
        /\ \A e \in 1..Len(Trace[a].before) : Trace[a].after[e] = Trace[a].before[e]

C8_GetInnermost ==
    \A d \in Events("ident") :
        LET k == Innermost(Trace[d].stores, Trace[d].name)
        IN  /\ Trace[d].found <=> k # 0
            /\ k # 0 => Trace[d].result = Trace[d].stores[k][Trace[d].name]

C8_EnvironmentFrame == C8_SetIsLocal /\ C8_CallLeavesOuterEnvs /\ C8_GetInnermost

\* a call whose parameter and whose let rebind a name of the outer
\* environment, which keeps its binding
C8_Witness ==
    \E a \in Calls : \E b \in Events("set") : \E l \in Events("set") :
        /\ b < l /\ l < a
        /\ Trace[b].by = "param" /\ Trace[l].by = "let"
        /\ Trace[b].env = Trace[a].env /\ Trace[l].env = Trace[a].env
        /\ Trace[b].name = Trace[l].name
        /\ Trace[b].name \in DOMAIN Trace[a].before[Trace[a].outer].store
        /\ Trace[a].after[Trace[a].outer].store[Trace[b].name] # Trace[l].val
        /\ Trace[a].after[Trace[a].outer].store[Trace[b].name] # Trace[b].val

(***************************************************************************)
(* C9: truthiness is the same for if and for prefix !: an object is falsy  *)
(* exactly when it is NULL or FALSE; !x is TRUE exactly when x is falsy,   *)
(* so !!x is TRUE exactly when x is truthy; an if-expression evaluates its *)
(* consequence when the condition is truthy, otherwise its alternative     *)
(* when present, otherwise yields NULL, and never evaluates both branches. *)
(***************************************************************************)
Falsy(obj) == obj = NULL \/ obj = FALSE_

BangEvents ==
    {e \in Events("expr") :
        /\ Trace[e].node.kind = "PrefixExpression"
        /\ Trace[e].node.operator = "!"
        /\ Trace[e].applied}

C9_Bang ==
    \A e \in BangEvents :
        Trace[e].result = (IF Falsy(Trace[e].vals[1]) THEN TRUE_ ELSE FALSE_)

\* !!x: the evaluation of the inner ! is the event before that of the outer
C9_BangBang ==
    \A e \in BangEvents :
        (/\ e > 1
         /\ (e - 1) \in BangEvents
         /\ Trace[e].node.right = Trace[e - 1].node)
        => /\ Trace[e].vals[1] = Trace[e - 1].result
           /\ Trace[e].result = (IF Falsy(Trace[e - 1].vals[1]) THEN FALSE_ ELSE TRUE_)

\* the blocks an if-expression evaluated are the block events since its
\* condition was evaluated: exactly the branch taken
C9_If ==
    \A i \in Events("if") :
        LET ie == Trace[i].node
            taken == Trace[i].branches
        IN  /\ Len(taken) <= 1
            /\ ~Falsy(Trace[i].condition) =>
                  /\ taken = <<"consequence">>
                  /\ Trace[i - 1].ev = "block"
                  /\ Trace[i - 1].node = ie.consequence
                  /\ Trace[i].result = Trace[i - 1].result
            /\ (Falsy(Trace[i].condition) /\ ie.alternative # NoNode) =>
                  /\ taken = <<"alternative">>
                  /\ Trace[i - 1].ev = "block"
                  /\ Trace[i - 1].node = ie.alternative
                  /\ Trace[i].result = Trace[i - 1].result
            /\ (Falsy(Trace[i].condition) /\ ie.alternative = NoNode) =>
                  /\ taken = <<>>
                  /\ Trace[i].result = NULL
                  /\ (i > 1 => Trace[i - 1].ev # "block")

C9_Truthiness == C9_Bang /\ C9_BangBang /\ C9_If

\* the integer 0 is truthy for if, and !!0 is TRUE
C9_Witness ==
    \/ \E i \in Events("if") :
          /\ Trace[i].condition = Integer(0)
          /\ Trace[i].branches = <<"consequence">>
          /\ Trace[i].node.alternative # NoNode
    \/ \E e \in BangEvents :
          /\ e > 1 /\ (e - 1) \in BangEvents
          /\ Trace[e - 1].vals[1] = Integer(0)
          /\ Trace[e].result = TRUE_

(***************************************************************************)
(* C10: indexing an Array with an Integer i yields the element at position *)
(* i when 0 <= i < length and NULL for every other i (negative, equal to   *)
(* the length, or larger, including on the empty array); it never yields   *)
(* an Error and never faults.                                              *)
(***************************************************************************)
IsArrayIndexing(node) ==
    /\ node.kind = "IndexExpression"
    /\ node.left \in ArrayLits
    /\ node.index \in IntLits

C10_Events ==
    \A e \in Events("expr") :
        (/\ Trace[e].node.kind = "IndexExpression"
         /\ Trace[e].applied
         /\ IsObject(Trace[e].vals[1], ARRAY_OBJ)
         /\ IsObject(Trace[e].vals[2], INTEGER_OBJ))
        => LET elements == Trace[e].vals[1].elements
               i == Trace[e].vals[2].value
           IN  Trace[e].result =
                  (IF 0 <= i /\ i < Len(elements) THEN elements[i + 1] ELSE NULL)

\* a program that indexes an array literal with an integer literal ends
\* without a panic, in the element or NULL
C10_Programs ==
    (Len(program.statements) = 1 /\ program.statements[1].kind = "ExpressionStatement"
        /\ IsArrayIndexing(program.statements[1].expression))
    => /\ status # "panic"
       /\ Done =>
            /\ ~IsObject(result, ERROR_OBJ)
            /\ \E e \in Events("expr") :
                  /\ Trace[e].node = program.statements[1].expression
                  /\ Trace[e].applied
                  /\ Trace[e].result = result

C10_ArrayIndex == C10_Events /\ C10_Programs

\* an index equal to the length of a non-empty array, and an index on the
\* empty array
C10_Witness ==
    \E e \in Events("expr") :
        /\ Trace[e].node.kind = "IndexExpression"
        /\ Trace[e].applied
        /\ IsObject(Trace[e].vals[1], ARRAY_OBJ)
        /\ IsObject(Trace[e].vals[2], INTEGER_OBJ)
        /\ Trace[e].vals[2].value = Len(Trace[e].vals[1].elements)
        /\ Trace[e].result = NULL

(***************************************************************************)
(* C11: indexing a Hash with an Integer, Boolean or String key yields the  *)
(* stored value, or NULL when the key is absent; indexing a Hash with an   *)
(* object of any other type yields "unusable as hash key: <TYPE>" naming   *)
(* the index's type; every container/index combination other than          *)
(* Array[Integer] and Hash[...] yields "index operator not supported:      *)
(* <TYPE>" naming the container's type.                                    *)
(***************************************************************************)
\* the evaluations of index nodes that entered evalIndexExpression with two objects
IndexEvents ==
    {e \in Events("expr") :
        /\ Trace[e].node.kind = "IndexExpression"
        /\ Trace[e].applied
        /\ Trace[e].vals[1] # NIL
        /\ Trace[e].vals[2] # NIL}

HashableTypes == {INTEGER_OBJ, BOOLEAN_OBJ, STRING_OBJ}

\* the pairs of a hash whose original key object equals obj
Stored(hash, obj) == {k \in DOMAIN hash.pairs : hash.pairs[k].key = obj}

C11_HashIndex ==
    \A e \in IndexEvents :
        LET left == Trace[e].vals[1]
            index == Trace[e].vals[2]
            res == Trace[e].result
        IN  /\ (left.type = HASH_OBJ /\ index.type \in HashableTypes) =>
                  IF Stored(left, index) = {} THEN res = NULL
                  ELSE \E k \in Stored(left, index) : res = left.pairs[k].value
            /\ (left.type = HASH_OBJ /\ index.type \notin HashableTypes) =>
                  res = Error("unusable as hash key: " \o index.type)
            /\ (left.type # HASH_OBJ /\ ~(left.type = ARRAY_OBJ /\ index.type = INTEGER_OBJ)) =>
                  res = Error("index operator not supported: " \o left.type)

\* a hash of two pairs indexed with a function, and an array indexed with a hash
C11_Witness ==
    \E e \in IndexEvents :
        \/ /\ Trace[e].vals[1].type = HASH_OBJ
           /\ Cardinality(DOMAIN Trace[e].vals[1].pairs) = 2
           /\ Trace[e].vals[2].type = FUNCTION_OBJ
           /\ Trace[e].result = Error("unusable as hash key: FUNCTION")
        \/ /\ Trace[e].vals[1].type = ARRAY_OBJ
           /\ Trace[e].vals[2].type = HASH_OBJ
           /\ Trace[e].result = Error("index operator not supported: ARRAY")

(***************************************************************************)
(* C12: hash keys are compared by type and value, not by identity: two     *)
(* key objects of the same hashable type with equal value address the same *)
(* stored pair, in a hash literal and in an index lookup alike, and keys   *)
(* of different types (Integer 1, Boolean true, String "1") are distinct.  *)
(***************************************************************************)
\* storing a pair replaces the pair whose key has the same type and value,
\* if there is one, and leaves every other pair as it was
C12_Literal ==
    \A p \in Events("pair") :
        LET before == Trace[p].before
            after == Trace[p].after
            same(pairs) == {k \in DOMAIN pairs : pairs[k].key = Trace[p].key}
        IN  /\ Cardinality(same(after)) = 1
            /\ \A k \in same(after) : after[k].value = Trace[p].value
            /\ \A k \in DOMAIN before \ same(before) : k \in DOMAIN after /\ after[k] = before[k]
            /\ Cardinality(DOMAIN after) =
                  Cardinality(DOMAIN before) + (IF same(before) = {} THEN 1 ELSE 0)

C12_Lookup ==
    \A e \in IndexEvents :
        LET hash == Trace[e].vals[1]
            index == Trace[e].vals[2]
        IN  (hash.type = HASH_OBJ /\ index.type \in HashableTypes) =>
              /\ \A k \in Stored(hash, index) : Trace[e].result = hash.pairs[k].value
              /\ (\A k \in DOMAIN hash.pairs : hash.pairs[k].key.type # index.type)
                    => Trace[e].result = NULL

C12_HashKeyEquality == C12_Literal /\ C12_Lookup

\* a literal whose second pair has a key equal to the first pair's, computed
\* by another expression: one pair is stored, with the second value
C12_Witness ==
    \E p \in Events("pair") : \E q \in Events("pair") :
        /\ p < q
        /\ Trace[p].node = Trace[q].node
        /\ Trace[p].idx # Trace[q].idx
        /\ Trace[p].node.pairs[Trace[p].idx][1] # Trace[q].node.pairs[Trace[q].idx][1]
        /\ Trace[p].key = Trace[q].key
        /\ Trace[p].key.type = STRING_OBJ
        /\ Trace[p].value # Trace[q].value
        /\ Cardinality(DOMAIN Trace[q].after) = 1

(***************************************************************************)
(* C13: push(arr, x) returns a new Array of length len(arr)+1 whose first  *)
(* len(arr) elements are those of arr in order and whose last element is   *)
(* x, and rest(arr) on a non-empty arr returns a new Array holding arr's   *)
(* elements after the first; after either call, and after any later push   *)
(* or rest on the returned array, the length and elements of arr as seen   *)
(* through every other reference to it are unchanged.                      *)
(***************************************************************************)
\* the calls of the builtin name that got an array as their first argument
ArrayCalls(name) ==
    {a \in Events("apply") :
        /\ Trace[a].fn = Builtin(name)
        /\ Len(Trace[a].args) = (IF name = "push" THEN 2 ELSE 1)
        /\ IsObject(Trace[a].args[1], ARRAY_OBJ)}

\* the identities of the arrays bound in the environments of heap
BoundArrays(heap) ==
    UNION {{heap[e].store[n].id :
                n \in {m \in DOMAIN heap[e].store : IsObject(heap[e].store[m], ARRAY_OBJ)}} :
           e \in 1..Len(heap)}

C13_Push ==
    \A a \in ArrayCalls("push") :
        LET arr == Trace[a].args[1]
            res == Trace[a].result
            n == Len(arr.elements)
        IN  /\ IsObject(res, ARRAY_OBJ)
            /\ Len(res.elements) = n + 1
            /\ SubSeq(res.elements, 1, n) = arr.elements
            /\ res.elements[n + 1] = Trace[a].args[2]
            /\ res.id # arr.id
            /\ res.id \notin BoundArrays(Trace[a].before)

C13_Rest ==
    \A a \in ArrayCalls("rest") :
        LET arr == Trace[a].args[1]
            res == Trace[a].result
        IN  arr.elements # <<>> =>
              /\ IsObject(res, ARRAY_OBJ)
              /\ res.elements = Tail(arr.elements)
              /\ res.id # arr.id
              /\ res.id \notin BoundArrays(Trace[a].before)

\* no binding changes in the call, and every later reference to the array
\* yields it with the elements it had
C13_Unchanged ==
    \A a \in ArrayCalls("push") \cup ArrayCalls("rest") :
        /\ Trace[a].after = Trace[a].before
        /\ \A d \in Events("ident") :
              (d > a /\ IsObject(Trace[d].result, ARRAY_OBJ)
                     /\ Trace[d].result.id = Trace[a].args[1].id)
              => Trace[d].result.elements = Trace[a].args[1].elements

C13_PushRestPure == C13_Push /\ C13_Rest /\ C13_Unchanged

\* a push on a bound non-empty array, a later push or rest on the array it
\* returned, and a reference to the first array after both
C13_Witness ==
    \E a \in ArrayCalls("push") :
        \E b \in ArrayCalls("push") \cup ArrayCalls("rest") : \E d \in Events("ident") :
            /\ a < b /\ b < d
            /\ Trace[a].args[1].elements # <<>>
            /\ Trace[a].args[1].id \in BoundArrays(Trace[a].before)
            /\ Trace[b].args[1].id = Trace[a].result.id
            /\ IsObject(Trace[b].result, ARRAY_OBJ)
            /\ IsObject(Trace[d].result, ARRAY_OBJ)
            /\ Trace[d].result.id = Trace[a].args[1].id

(***************************************************************************)
(* C14: a builtin called with the wrong number of arguments (len, first,   *)
(* last, rest: other than 1; push: other than 2) yields "wrong number of   *)
(* arguments: got=<n>, want=<k>", whatever the types of the arguments;     *)
(* with the right count and an unsupported first argument, len yields      *)
(* "argument to 'len' not supported, got=<TYPE>" and first, last, rest and *)
(* push yield "argument to '<name>' must be ARRAY, got=<TYPE>".  (The      *)
(* quotes around the name stand for the backquotes of the messages.)       *)
(***************************************************************************)
BuiltinCalls(name) == {a \in Events("apply") : Trace[a].fn = Builtin(name)}

Want(name) == IF name = "push" THEN 2 ELSE 1

Calls1(name, type) ==
    {a \in BuiltinCalls(name) :
        Len(Trace[a].args) = 1 /\ IsObject(Trace[a].args[1], type)}

C15_BuiltinResults ==
    /\ \A a \in Calls1("len", STRING_OBJ) :
          Trace[a].result = Integer(Len(Trace[a].args[1].str))
    /\ \A a \in Calls1("len", ARRAY_OBJ) :
          Trace[a].result = Integer(Len(Trace[a].args[1].elements))
    /\ \A a \in Calls1("first", ARRAY_OBJ) :
          LET elements == Trace[a].args[1].elements
          IN  Trace[a].result = (IF elements = <<>> THEN NULL ELSE elements[1])
    /\ \A a \in Calls1("last", ARRAY_OBJ) :
          LET elements == Trace[a].args[1].elements
          IN  Trace[a].result = (IF elements = <<>> THEN NULL ELSE elements[Len(elements)])
    /\ \A a \in Calls1("rest", ARRAY_OBJ) :
          LET elements == Trace[a].args[1].elements
          IN  IF elements = <<>> THEN Trace[a].result = NULL
              ELSE /\ IsObject(Trace[a].result, ARRAY_OBJ)
                   /\ Len(Trace[a].result.elements) = Len(elements) - 1
    /\ \A a \in BuiltinCalls("print") : Trace[a].result = NULL

\* rest of an array of one element: the empty array, not NULL
C15_Witness ==
    \E a \in Calls1("rest", ARRAY_OBJ) :
        /\ Len(Trace[a].args[1].elements) = 1
        /\ IsObject(Trace[a].result, ARRAY_OBJ)
        /\ Trace[a].result.elements = <<>>

(***************************************************************************)
(* C16: evaluating the same Program AST twice, each time against a fresh   *)
(* top-level environment, yields identical results (the same value, or an  *)
(* Error with the same message), for every program including hash literals *)
(* with several pairs; evaluation never changes an AST node.               *)
(***************************************************************************)
\* an object without the identities of its allocations: what two
\* evaluations can be compared on
RECURSIVE Plain(_)
Plain(obj) ==
    IF obj = NIL THEN NIL
    ELSE CASE obj.type = ARRAY_OBJ ->
                [type |-> ARRAY_OBJ,
                 elements |-> [i \in 1..Len(obj.elements) |-> Plain(obj.elements[i])]]
           [] obj.type = HASH_OBJ ->
                [type |-> HASH_OBJ,
                 pairs |-> [k \in DOMAIN obj.pairs |->
                              HashPair(Plain(obj.pairs[k].key), Plain(obj.pairs[k].value))]]
           [] obj.type = FUNCTION_OBJ ->
                [type |-> FUNCTION_OBJ, parameters |-> obj.parameters, body |-> obj.body]
           [] obj.type = RETURN_VALUE_OBJ ->
                [type |-> RETURN_VALUE_OBJ, wrapped |-> Plain(obj.value)]
           [] OTHER -> obj

C16_SameResult == (run = 2 /\ Done) => Plain(result) = Plain(previous[1])

C16_Deterministic == [](C16_SameResult) /\ [][program' = program]_vars

(***************************************************************************)
(* C19: whenever a prefix, infix or index operator interprets its operands *)
(* (evalPrefixExpression, evalInfixExpression or evalIndexExpression is    *)
(* entered), no operand is a ReturnValue and no operand is an Error, also  *)
(* when an operand is an if-expression whose block executes a return; an   *)
(* operand that evaluates to a ReturnValue or an Error is the result of    *)
(* the operator expression instead.                                        *)
(***************************************************************************)
OperatorKinds == {"PrefixExpression", "InfixExpression", "IndexExpression"}

IsSignal(obj) == IsObject(obj, RETURN_VALUE_OBJ) \/ IsObject(obj, ERROR_OBJ)

C19_OperandsNeverSignals ==
    \A e \in Events("expr") :
        Trace[e].node.kind \in OperatorKinds =>
            LET signals == {k \in 1..Len(Trace[e].vals) : IsSignal(Trace[e].vals[k])}
            IN  signals # {} =>
                  /\ ~Trace[e].applied
                  /\ \E k \in signals : Trace[e].result = Trace[e].vals[k]

(***************************************************************************)
(* C20: calling a function with fewer arguments than parameters does not   *)
(* fail at the call site: the leading parameters are bound to the given    *)
(* arguments, the later ones stay unbound, the body is evaluated, and the  *)
(* call yields "identifier not found: <name>" only if the body refers to   *)
(* an unbound parameter that no enclosing scope binds; calling with more   *)
(* arguments than parameters binds the parameters by position and ignores  *)
(* the extra arguments.                                                    *)
(***************************************************************************)
\* what the claim says of let y = 0; fn(PARAMS) { BODY }(ARGS)
C20_Expected ==
    LET call == program.statements[2].expression
        params == call.function.parameters
        body == call.function.body.statements[1].expression
        args == call.arguments
        bound == {i \in 1..Len(params) : i <= Len(args) /\ params[i] = body.name}
    IN  IF body.kind = "IntegerLiteral" THEN Integer(body.value)
        ELSE IF bound # {} THEN Integer(args[CHOOSE i \in bound : TRUE].value)
        ELSE IF body.name = "y" THEN Integer(0)
        ELSE Error("identifier not found: " \o body.name)

C20_ArityMismatch ==
    /\ status = "panic" => result # Panic("index out of range")
    /\ program \in ArityPrograms =>
          /\ status # "panic"
          /\ (Done \/ pc > Len(program.statements)) => result = C20_Expected


(***************************************************************************)
(* The parser's claims, read off the state of ParserSpec.                  *)
(***************************************************************************)
Input == parser.l.input
ParseDone == ppc = "done"

\* the precedence the infix rule of an operator is registered with
precedences(type) ==
    CASE type = EQ -> EQUALS
      [] type = PLUS -> SUM
      [] type = ASTERISK -> PRODUCT

OperandNode(tok) ==
    IF tok.type = IDENT THEN Identifier(tok.literal)
    ELSE IntegerLiteral(ParseInt(tok.literal))

\* x op y, and x op1 y op2 z folded by the precedence of the two operators
Folded(input) ==
    IF Len(input) < 5
    THEN InfixExpression(input[2].literal, OperandNode(input[1]), OperandNode(input[3]))
    ELSE IF precedences(input[4].type) > precedences(input[2].type)
    THEN InfixExpression(input[2].literal, OperandNode(input[1]),
             InfixExpression(input[4].literal, OperandNode(input[3]),
                             OperandNode(input[5])))
    ELSE InfixExpression(input[4].literal,
             InfixExpression(input[2].literal, OperandNode(input[1]),
                             OperandNode(input[3])),
             OperandNode(input[5]))

\* C17: an infix expression parses as one expression statement whose
\* expression is folded by precedence (a + b * c as a + (b * c), a * b + c as
\* (a * b) + c), every token of it consumed and no diagnostic recorded.
C17_PrecedenceFolding ==
    (ParseDone /\ Input \in InfixInputs)
        => /\ parsed = <<ExpressionStatement(Folded(Input))>>
           /\ parser.errors = <<>>

\* a statement that failed to parse: the nil *ast.LetStatement, or an
\* expression statement without an expression
FailedStatement(node) ==
    \/ "nil" \in DOMAIN node
    \/ node.kind = "ExpressionStatement" /\ node.expression = NoNode

StatementKind(tokens) ==
    CASE tokens[1].type = tokenLET -> "LetStatement"
      [] tokens[1].type = RETURN -> "ReturnStatement"
      [] OTHER -> "ExpressionStatement"

\* the well-formed statement a recovery input ends with
LastWellFormed(input) ==
    CHOOSE good \in WellFormed :
        /\ Len(good) <= Len(input)
        /\ SubSeq(input, Len(input) - Len(good) + 1, Len(input)) = good

C18_NoFailedStatement ==
    \A i \in 1..Len(parsed) : ~FailedStatement(parsed[i])

C18_Diagnosed ==
    (ParseDone /\ Input \in RecoveryInputs) => parser.errors # <<>>

C18_Continues ==
    (ParseDone /\ Input \in RecoveryInputs)
        => /\ parsed # <<>>
           /\ parsed[Len(parsed)].kind = StatementKind(LastWellFormed(Input))
           /\ ~FailedStatement(parsed[Len(parsed)])

C18_ErrorsGrow ==
    /\ Len(parser.errors') >= Len(parser.errors)
    /\ SubSeq(parser.errors', 1, Len(parser.errors)) = parser.errors

\* C18: a malformed construct appends a diagnostic to the error list, which
\* only ever grows; parsing continues, so that the well-formed statement
\* after the malformed construct is in Program.Statements; no statement
\* that failed to parse is in Program.Statements.
C18_ErrorRecovery ==
    /\ [](C18_Diagnosed /\ C18_Continues /\ C18_NoFailedStatement)
    /\ [][C18_ErrorsGrow]_vars

(***************************************************************************)
(* C21: a hash literal evaluates its pairs in the order they are declared  *)
(* and stops at the first failure in that order: its result is the one the *)
(* declared order gives (the Error of the first declared key or value that *)
(* fails, "unusable as hash key" for the first declared key that is not    *)
(* hashable, or the hash whose later pairs replace earlier ones); the key  *)
(* object is stored next to the value.                                     *)
(***************************************************************************)
\* the statement of a program that is one hash literal, evaluated with the
\* pairs taken in declared order
InDeclaredOrder(prog) ==
    Eval(prog.statements[1], TopEnv, StmtEnter(InitialState, 0, 1, prog.statements[1]))

LiteralPrograms == {Program(<<Expr(h)>>) : h \in HashLits}

C21_Order ==
    \A h \in Events("hash") :
        Trace[h].order = [k \in 1..Len(Trace[h].node.pairs) |-> k]

C21_Result ==
    (program \in LiteralPrograms /\ Done /\ run = 1)
        => Plain(result) = Plain(InDeclaredOrder(program).obj)

C21_KeyStored ==
    \A p \in Events("pair") :
        Trace[p].after[HashKey(Trace[p].key)] = HashPair(Trace[p].key, Trace[p].value)

C21_DeclaredOrder == C21_Order /\ C21_Result /\ C21_KeyStored

(***************************************************************************)
(* C22: ParseProgram terminates on every finite token sequence, whether or *)
(* not the last statement ends with a semicolon: every iteration of its    *)
(* loop and of the loops of parseLetStatement and parseReturnStatement     *)
(* makes progress towards EOF, and the parser stops there.  Termination is *)
(* stated as: every step that changes anything decreases Remaining, and    *)
(* until ParseProgram has returned some step does change something.        *)
(***************************************************************************)
\* what is left to read: the tokens the lexer has not returned yet, then the
\* two tokens of the window that are not EOF, then the return of ParseProgram
Remaining ==
    8 * (Len(Input) + 1 - parser.l.position)
    + (IF peekTokenIs(parser, EOF) THEN 0 ELSE 4)
    + (IF curTokenIs(parser, EOF) THEN 0 ELSE 2)
    + (IF ParseDone THEN 0 ELSE 1)

C22_Progress == Remaining' < Remaining

C22_NotStuck == ParseDone \/ ENABLED <<ParserNext>>_vars

C22_Terminates == [][C22_Progress]_vars /\ []C22_NotStuck

(***************************************************************************)
(* C23: Eval of an expression node returns an Object, never the absent     *)
(* (nil) value, also for an if-expression whose chosen block is empty or   *)
(* ends in a let statement and for a call of a function whose body is      *)
(* empty or ends in a let statement; no operator, builtin or block step    *)
(* reads the type of an absent value (a nil dereference).                  *)
(***************************************************************************)
C23_Expressions ==
    /\ \A e \in Events("if") : Trace[e].result # NIL
    /\ \A e \in Events("apply") :
          /\ Trace[e].result # NIL
          /\ \A k \in 1..Len(Trace[e].args) : Trace[e].args[k] # NIL
    /\ \A e \in Events("expr") :
          /\ Trace[e].result # NIL
          /\ \A k \in 1..Len(Trace[e].vals) : Trace[e].vals[k] # NIL
    /\ \A e \in Events("pair") : Trace[e].value # NIL

C23_NoNilDereference == ~(status = "panic" /\ result = NilDeref)

C23_NoAbsentValue == C23_Expressions /\ C23_NoNilDereference

(***************************************************************************)
(* C24: the parser holds exactly two lookahead tokens and consumes the     *)
(* input strictly left to right: nextToken makes current the former peek   *)
(* and pulls one new token; expectPeek(t) advances by exactly one token    *)
(* and records nothing when peek has type t, and otherwise leaves current  *)
(* and peek as they are and appends exactly one diagnostic, "expected next *)
(* token to be <t>, got <type of peek> instead".  Read off the steps of    *)
(* the parser: a skip step is one nextToken, a let statement is            *)
(* expectPeek(IDENT), expectPeek(=) and, when one of them fails, the       *)
(* nextToken of ParseProgram.                                              *)
(***************************************************************************)
\* the k-th token the lexer returns
At(k) == IF k \in 1..Len(Input) THEN Input[k] ELSE Token(EOF, "")

\* current and peek are the k-th and the k+1-st token, and the lexer returns
\* the k+2-nd next
Window(p, k) ==
    /\ p.curToken = At(k)
    /\ p.peekToken = At(k + 1)
    /\ p.l.position = IF k + 2 <= Len(Input) THEN k + 2 ELSE Len(Input) + 1

\* the number of the current token (the first EOF, once the input is over)
Current(p) == CHOOSE k \in 1..(Len(Input) + 1) :
                 Window(p, k) /\ \A j \in 1..(k - 1) : ~Window(p, j)

Expected(t, actual) ==
    "expected next token to be " \o t \o ", got " \o actual \o " instead"

\* the window has moved on by n tokens
Advanced(n) == Window(parser', Current(parser) + n)

C24_TwoTokens == \E k \in 1..(Len(Input) + 1) : Window(parser, k)

C24_LeftToRight == Current(parser') >= Current(parser)

C24_NextToken ==
    (ppc \in {"parseLetStatement", "parseReturnStatement"})
        => Advanced(1) /\ parser.errors' = parser.errors

C24_ExpectPeek ==
    (ppc = "ParseProgram" /\ curTokenIs(parser, tokenLET)) =>
        LET k == Current(parser)
        IN  IF At(k + 1).type # IDENT
            THEN /\ parser.errors' = Append(parser.errors, Expected(IDENT, At(k + 1).type))
                 /\ Advanced(1)
            ELSE IF At(k + 2).type # ASSIGN
            THEN /\ parser.errors' = Append(parser.errors, Expected(ASSIGN, At(k + 2).type))
                 /\ Advanced(2)
            ELSE /\ parser.errors' = parser.errors
                 /\ Advanced(2)
                 /\ ppc' = "parseLetStatement"

C24_Step ==
    /\ C24_TwoTokens /\ C24_TwoTokens'
    /\ C24_LeftToRight
    /\ C24_NextToken
    /\ C24_ExpectPeek

C24_Lookahead == [][C24_Step]_vars

\* let a let b = 10; inside the second let statement: expectPeek(=) has
\* failed on the first let and succeeded on the second
C24_Witness ==
    /\ ppc = "parseLetStatement"
    /\ parser.errors = <<Expected(ASSIGN, tokenLET)>>
    /\ pending = LetStatement("b", NoNode)

(***************************************************************************)
(* C25: infix arithmetic on two Integers is the host's signed integer      *)
(* arithmetic (checked on operands whose results stay inside the 64-bit    *)
(* range): +, - and * yield the sum, difference and product, / with a      *)
(* non-zero divisor truncates toward zero (-7 / 2 is -3); prefix - is      *)
(* defined only for Integer and otherwise yields "unknown operator:        *)
(* -<TYPE>"; / with a zero divisor yields no Error object and no value:    *)
(* the evaluation ends in a fatal runtime fault.                           *)
(***************************************************************************)
IntegerInfixEvents ==
    {e \in InfixEvents :
        Trace[e].vals[1].type = INTEGER_OBJ /\ Trace[e].vals[2].type = INTEGER_OBJ}

MinusEvents ==
    {e \in Events("expr") :
        /\ Trace[e].node.kind = "PrefixExpression"
        /\ Trace[e].node.operator = "-"
        /\ Trace[e].applied
        /\ Trace[e].vals[1] # NIL}

DivideByZero == Panic("integer divide by zero")

\* q is a / b truncated toward zero: the remainder is smaller than the
\* divisor and has the sign of the dividend
Truncated(q, a, b) ==
    LET m == a - q * b
    IN  (IF m < 0 THEN -m ELSE m) < (IF b < 0 THEN -b ELSE b)
        /\ (m = 0 \/ (m < 0) = (a < 0))

C25_Arithmetic ==
    \A e \in IntegerInfixEvents :
        LET a == Trace[e].vals[1].value
            b == Trace[e].vals[2].value
            op == Trace[e].node.operator
            res == Trace[e].result
        IN  /\ op = "+" => res = Integer(a + b)
            /\ op = "-" => res = Integer(a - b)
            /\ op = "*" => res = Integer(a * b)
            /\ (op = "/" /\ b # 0) =>
                  res.type = INTEGER_OBJ /\ Truncated(res.value, a, b)
            /\ (op = "/" /\ b = 0) =>
                  res = DivideByZero /\ status = "panic" /\ result = DivideByZero

C25_Minus ==
    \A e \in MinusEvents :
        LET right == Trace[e].vals[1]
        IN  Trace[e].result =
              IF right.type = INTEGER_OBJ THEN Integer(-right.value)
              ELSE Error("unknown operator: -" \o right.type)

C25_IntegerArithmetic == C25_Arithmetic /\ C25_Minus

\* a negative dividend that the divisor does not divide: the quotient is
\* rounded up, toward zero
C25_Witness ==
    \E e \in IntegerInfixEvents :
        /\ Trace[e].node.operator = "/"
        /\ Trace[e].vals[1].value < 0
        /\ Trace[e].vals[2].value > 0
        /\ Trace[e].result.type = INTEGER_OBJ
        /\ Trace[e].result.value * Trace[e].vals[2].value # Trace[e].vals[1].value

=============================================================================
